---- MODULE Spec2Model ----
(***************************************************************************)
(* Product catalog of the furniture shop: ProductService over the product *)
(* repository (PostgreSQL), the image storage (S3) and the cache (Redis), *)
(* and ImageService.ValidateImage.                                         *)
(***************************************************************************)
EXTENDS Integers, Sequences, FiniteSets, TLC

VARIABLES
    repo,       \* products table: id -> row
    nextID,     \* next value of the products.id SERIAL
    blobs,      \* URLs of the objects stored in the S3 bucket
    nextURL,    \* next object name handed out by UploadFile
    cache,      \* redis: key -> stored JSON value
    tasks,      \* goroutines "go s.cache.Set(...)" that have not run yet
    calls,      \* the service calls in flight, one per request slot
    started,    \* number of service calls started so far
    deletedOK,  \* history: ids for which DeleteProduct has returned nil
    fresh,      \* history: ids cached by GetProduct and not written since
    twinA,      \* paired run: world and call where cache deletes may fail
    twinB,      \* paired run: world and call where cache deletes succeed
    img,        \* an upload header, the configuration and ValidateImage's answer
    users       \* users table: rows and the next value of the users.id SERIAL

vars == <<repo, nextID, blobs, nextURL, cache, tasks, calls, started,
          deletedOK, fresh, twinA, twinB, img, users>>

catalogVars == <<repo, nextID, blobs, nextURL, cache, tasks, calls, started,
                 deletedOK, fresh>>

twinVars == <<twinA, twinB>>

-----------------------------------------------------------------------------
(* Bounds *)

NumSlots == 2
MaxCalls == 2

Slots == 1..NumSlots

-----------------------------------------------------------------------------
(* Configuration and errors *)

MaxUploadSize == 10485760

DefaultAllowedImageTypes == {"image/jpeg", "image/png", "image/webp"}

ErrFileTooLarge == "file too large"
ErrInvalidFileType == "invalid file type"
ErrFileUploadFailed == "file upload failed"
ErrProductNotFound == "product not found"
ErrDB == "db error"
ErrNoRowsAffected == "product not found: %d"
NoError == "nil"
ErrUserExists == "user already exists"
ErrDuplicateKey == "create user: duplicate key value violates unique constraint"
ErrPasswordTooLong == "bcrypt: password length exceeds 72 bytes"

-----------------------------------------------------------------------------
(* ImageService.ValidateImage *)

\* strings.ToLower on the characters that occur in the model's filenames
ToLowerChar(ch) ==
    CASE ch = "J" -> "j"
      [] ch = "P" -> "p"
      [] ch = "G" -> "g"
      [] ch = "N" -> "n"
      [] OTHER -> ch

ToLower(s) == [i \in 1..Len(s) |-> ToLowerChar(s[i])]

\* filepath.Ext: the suffix beginning at the last dot of the last path element
RECURSIVE ExtFrom(_, _)
ExtFrom(path, i) ==
    IF i < 1 \/ path[i] = "/" THEN <<>>
    ELSE IF path[i] = "." THEN SubSeq(path, i, Len(path))
    ELSE ExtFrom(path, i - 1)

Ext(path) == ExtFrom(path, Len(path))

isAllowedImageType(allowed, contentType) == contentType \in allowed

extMap ==
    [e \in {<<".", "j", "p", "g">>, <<".", "j", "p", "e", "g">>,
            <<".", "p", "n", "g">>, <<".", "w", "e", "b", "p">>} |->
        CASE e = <<".", "j", "p", "g">> -> "image/jpeg"
          [] e = <<".", "j", "p", "e", "g">> -> "image/jpeg"
          [] e = <<".", "p", "n", "g">> -> "image/png"
          [] OTHER -> "image/webp"]

isAllowedExtension(allowed, ext) ==
    IF ext \notin DOMAIN extMap THEN FALSE
    ELSE isAllowedImageType(allowed, extMap[ext])

ValidateImage_SizeLast(allowed, h) ==
    IF ~isAllowedImageType(allowed, h.ContentType) THEN ErrInvalidFileType
    ELSE IF ~isAllowedExtension(allowed, ToLower(Ext(h.Filename))) THEN ErrInvalidFileType
    ELSE IF h.Size > MaxUploadSize THEN ErrFileTooLarge
    ELSE NoError

ValidateImage(allowed, h) ==
    IF h.Size > MaxUploadSize THEN ErrFileTooLarge
    ELSE IF ~isAllowedImageType(allowed, h.ContentType) THEN ErrInvalidFileType
    ELSE IF ~isAllowedExtension(allowed, ToLower(Ext(h.Filename))) THEN ErrInvalidFileType
    ELSE NoError

\* The upload headers and allow-lists ValidateImage is exercised on
Stems == { <<>>, <<"a">>, <<"a", ".", "e", "x", "e">>,
           <<"d", ".", "p", "n", "g", "/", "a">> }

Suffixes == { <<>>, <<".">>,
              <<".", "j", "p", "g">>, <<".", "J", "P", "G">>,
              <<".", "j", "p", "e", "g">>, <<".", "p", "n", "g">>,
              <<".", "P", "n", "G">>, <<".", "w", "e", "b", "p">>,
              <<".", "g", "i", "f">>, <<".", "p", "n", "g", ".">>,
              <<".", "p", "n", "g", "/">>, <<".", "j", "p", "g", ".", "e", "x", "e">> }

Filenames == { st \o su : st \in Stems, su \in Suffixes }

ContentTypes == {"image/jpeg", "image/png", "image/webp", "image/gif",
                 "IMAGE/PNG", ""}

Sizes == {0, MaxUploadSize - 1, MaxUploadSize, MaxUploadSize + 1}

AllowLists == { DefaultAllowedImageTypes, {"image/png"},
                {"image/jpeg", "image/gif"}, {} }

Headers == [Size : Sizes, ContentType : ContentTypes, Filename : Filenames]

NoHeader == [Size |-> 0, ContentType |-> "", Filename |-> <<>>]

ImgIdle == [allowed |-> {}, header |-> NoHeader, validated |-> FALSE, err |-> NoError]

-----------------------------------------------------------------------------
(* entity.Product, cache keys, cache values *)

NoURL == 0

NilProduct == [ID |-> 0, Price |-> 0, Category |-> "", Stock |-> 0, ImageURL |-> NoURL]

Categories == {"c1", "c2"}

\* a product with a picture, inserted earlier
SeedRow(first) ==
    [ID |-> first, Price |-> 1, Category |-> "c1", Stock |-> 1, ImageURL |-> 1]

\* string(rune(id)): the UTF-8 text of code point id, U+FFFD when id is no
\* valid code point (negative, a surrogate half, above U+10FFFF)
RuneOf(id) ==
    IF id < 0 \/ id > 1114111 \/ (id >= 55296 /\ id <= 57343) THEN 65533 ELSE id

ProductKey(id) == [prefix |-> "product:", rune |-> RuneOf(id), text |-> ""]

ListKey(text) == [prefix |-> "products:", rune |-> -1, text |-> text]

NoKey == [prefix |-> "", rune |-> -1, text |-> ""]

\* json.Marshal of a *entity.Product and json.Unmarshal into one
Marshal(product) ==
    IF product = NilProduct THEN [kind |-> "null", items |-> <<>>]
    ELSE [kind |-> "object", items |-> <<product>>]

Unmarshal(data) ==
    IF data.kind = "object" THEN [err |-> FALSE, product |-> data.items[1]]
    ELSE IF data.kind = "null" THEN [err |-> FALSE, product |-> NilProduct]
    ELSE [err |-> TRUE, product |-> NilProduct]

EmptyMap == [x \in {} |-> NilProduct]

Without(map, key) == [k \in DOMAIN map \ {key} |-> map[k]]

\* the goroutines not yet run: task -> how many of it
Spawn(bag, t) == IF t \in DOMAIN bag THEN [bag EXCEPT ![t] = @ + 1] ELSE bag @@ (t :> 1)

Finish(bag, t) == IF bag[t] > 1 THEN [bag EXCEPT ![t] = @ - 1] ELSE Without(bag, t)

With(map, key, value) == [k \in DOMAIN map \cup {key} |-> IF k = key THEN value ELSE map[k]]

-----------------------------------------------------------------------------
(* Go's int (64 bits, two's complement) as four 16-bit limbs, low limb     *)
(* first                                                                    *)

Limb == 65536

Zero64 == <<0, 0, 0, 0>>

One64 == <<1, 0, 0, 0>>

MinusOne64 == <<Limb - 1, Limb - 1, Limb - 1, Limb - 1>>

MaxInt64 == <<Limb - 1, Limb - 1, Limb - 1, (Limb \div 2) - 1>>

\* the int of a natural number below 2^31
FromNat(n) == <<n % Limb, n \div Limb, 0, 0>>

IsNegative(x) == x[4] >= Limb \div 2

\* x < y
Less64(x, y) ==
    IF IsNegative(x) # IsNegative(y) THEN IsNegative(x)
    ELSE \E i \in 1..4 : x[i] < y[i] /\ \A j \in (i + 1)..4 : x[j] = y[j]

\* x - 1
Dec64(x) ==
    LET nonzero == { i \in 1..4 : x[i] # 0 }
        first == IF nonzero = {} THEN 5
                 ELSE CHOOSE i \in nonzero : \A j \in nonzero : i <= j
    IN [k \in 1..4 |-> IF k < first THEN Limb - 1
                        ELSE IF k = first THEN x[k] - 1
                        ELSE x[k]]

\* x * k for 0 <= k < 2^15, the low 64 bits
Mul64(x, k) ==
    LET p1 == x[1] * k
        p2 == x[2] * k + (p1 \div Limb)
        p3 == x[3] * k + (p2 \div Limb)
        p4 == x[4] * k + (p3 \div Limb)
    IN <<p1 % Limb, p2 % Limb, p3 % Limb, p4 % Limb>>

\* the natural number of an int in 0 .. 2^31 - 1
ToNat(x) == x[1] + x[2] * Limb

-----------------------------------------------------------------------------
(* Worlds, calls, faults *)

NoFault == [db |-> FALSE, s3 |-> FALSE, redis |-> FALSE]

Faults == [db : BOOLEAN, s3 : BOOLEAN, redis : BOOLEAN]

DBFaults == { [NoFault EXCEPT !.db = b] : b \in BOOLEAN }

S3Faults == { [NoFault EXCEPT !.s3 = b] : b \in BOOLEAN }

RedisFaults == { [NoFault EXCEPT !.redis = b] : b \in BOOLEAN }

\* the table holds one product; cached tells whether GetProduct has cached it
NewWorld(first, cached) ==
    [repo |-> (first :> SeedRow(first)), nextID |-> first + 1, blobs |-> {1}, nextURL |-> 2,
     cache |-> IF cached THEN (ProductKey(first) :> Marshal(SeedRow(first))) ELSE EmptyMap,
     tasks |-> EmptyMap, deletedOK |-> {},
     fresh |-> IF cached THEN {first} ELSE {}]

\* the arguments and the answer of a list request
NoList ==
    [category |-> "", rawPage |-> Zero64, rawPageSize |-> Zero64,
     page |-> Zero64, pageSize |-> 0, offset |-> Zero64,
     items |-> <<>>, total |-> 0, hasMore |-> FALSE]

\* the multipart form of an admin request; price and stock as their text
NoForm == [name |-> "", description |-> "", price |-> <<>>, category |-> "", stock |-> <<>>]

\* an HTTP request to an admin route and its answer: the Authorization header
\* as strings.Split gives it (<<>> when the header is absent), the id of the
\* path, the form, the status written
NoRequest == [route |-> "", authHeader |-> <<>>, id |-> 0, form |-> NoForm, status |-> 0]

\* the entity.User of a registration: ID as the insert returns it
NoUser == [ID |-> 0, Email |-> "", longPassword |-> FALSE]

\* the users table before anyone has registered
NoUsers == [rows |-> {}, nextID |-> 1]

IdleCall ==
    [op |-> "idle", pc |-> "idle", product |-> NilProduct,
     hasFile |-> FALSE, header |-> NoHeader, oldProduct |-> NilProduct,
     imageURL |-> NoURL, err |-> NoError, ret |-> NilProduct, log |-> <<>>,
     afterDelete |-> FALSE, expectHit |-> FALSE, list |-> NoList,
     http |-> NoRequest, user |-> NoUser]

Event(call, url, key, ok) == [call |-> call, url |-> url, key |-> key, ok |-> ok]

Logged(c, events) == [c EXCEPT !.log = @ \o events]

Return(c, err) == [c EXCEPT !.pc = "done", !.err = err]

Row(w, id) == IF id \in DOMAIN w.repo THEN w.repo[id] ELSE NilProduct

-----------------------------------------------------------------------------
(* ImageService.UploadImage / DeleteImage over S3Storage *)

\* uploads before it validates
UploadImage_ValidatesLate(w, header, f) ==
    LET verr == ValidateImage(DefaultAllowedImageTypes, header) IN
    IF f.s3
    THEN [w |-> w, url |-> NoURL, err |-> ErrFileUploadFailed,
          log |-> <<Event("s3.UploadFile", NoURL, NoKey, FALSE)>>]
    ELSE [w |-> [w EXCEPT !.blobs = @ \cup {w.nextURL}, !.nextURL = @ + 1],
          url |-> IF verr # NoError THEN NoURL ELSE w.nextURL, err |-> verr,
          log |-> <<Event("s3.UploadFile", w.nextURL, NoKey, TRUE)>>]

UploadImage(w, header, f) ==
    LET verr == ValidateImage(DefaultAllowedImageTypes, header) IN
    IF verr # NoError THEN [w |-> w, url |-> NoURL, err |-> verr, log |-> <<>>]
    ELSE IF f.s3
    THEN [w |-> w, url |-> NoURL, err |-> ErrFileUploadFailed,
          log |-> <<Event("s3.UploadFile", NoURL, NoKey, FALSE)>>]
    ELSE [w |-> [w EXCEPT !.blobs = @ \cup {w.nextURL}, !.nextURL = @ + 1],
          url |-> w.nextURL, err |-> NoError,
          log |-> <<Event("s3.UploadFile", w.nextURL, NoKey, TRUE)>>]

DeleteImage(w, fileURL, f) ==
    IF fileURL = NoURL THEN [w |-> w, log |-> <<>>]
    ELSE IF f.s3 THEN [w |-> w, log |-> <<Event("s3.DeleteFile", fileURL, NoKey, FALSE)>>]
    ELSE [w |-> [w EXCEPT !.blobs = @ \ {fileURL}],
          log |-> <<Event("s3.DeleteFile", fileURL, NoKey, TRUE)>>]

-----------------------------------------------------------------------------
(* redis.Cache *)

CacheDelete(w, key, fails) ==
    IF fails THEN [w |-> w, log |-> <<Event("cache.Delete", NoURL, key, FALSE)>>]
    ELSE [w |-> [w EXCEPT !.cache = Without(@, key)],
          log |-> <<Event("cache.Delete", NoURL, key, TRUE)>>]

CacheGet(w, key, fails) ==
    IF fails THEN [err |-> TRUE, product |-> NilProduct]
    ELSE IF key \notin DOMAIN w.cache THEN [err |-> FALSE, product |-> NilProduct]
    ELSE Unmarshal(w.cache[key])

CacheSet(w, key, product, fails) ==
    IF fails THEN w ELSE [w EXCEPT !.cache = With(@, key, Marshal(product))]

invalidateProductCache(w, category, productID, fails) ==
    LET d1 == CacheDelete(w, ListKey("all"), fails)
        d2 == CacheDelete(d1.w, ListKey(category), fails)
        d3 == CacheDelete(d2.w, ProductKey(productID), fails)
    IN [w |-> d3.w, log |-> d1.log \o d2.log \o d3.log]

-----------------------------------------------------------------------------
(* ProductService.CreateProduct, one operator per external call *)

CreateUploadStep(w, c, f) ==
    LET up == UploadImage(w, c.header, f) IN
    IF up.err # NoError
    THEN [w |-> up.w, c |-> Return(Logged(c, up.log), up.err)]
    ELSE [w |-> up.w,
          c |-> [Logged(c, up.log) EXCEPT !.product.ImageURL = up.url,
                                          !.imageURL = up.url,
                                          !.pc = "create_insert"]]

\* returns the insert error without deleting the uploaded image
CreateInsertStep_NoCompensation(w, c, f) ==
    IF f.db
    THEN [w |-> w, c |-> Return(Logged(c, <<Event("repo.Create", NoURL, NoKey, FALSE)>>), ErrDB)]
    ELSE LET row == [c.product EXCEPT !.ID = w.nextID] IN
         [w |-> [w EXCEPT !.repo = With(@, row.ID, row), !.nextID = @ + 1],
          c |-> [Logged(c, <<Event("repo.Create", NoURL, NoKey, TRUE)>>)
                    EXCEPT !.product = row, !.pc = "create_invalidate"]]

CreateInsertStep(w, c, f) ==
    IF f.db
    THEN LET c1 == Logged(c, <<Event("repo.Create", NoURL, NoKey, FALSE)>>) IN
         IF c.product.ImageURL # NoURL
         THEN [w |-> w, c |-> [c1 EXCEPT !.pc = "create_compensate", !.err = ErrDB]]
         ELSE [w |-> w, c |-> Return(c1, ErrDB)]
    ELSE LET row == [c.product EXCEPT !.ID = w.nextID] IN
         [w |-> [w EXCEPT !.repo = With(@, row.ID, row), !.nextID = @ + 1],
          c |-> [Logged(c, <<Event("repo.Create", NoURL, NoKey, TRUE)>>)
                    EXCEPT !.product = row, !.pc = "create_invalidate"]]

CreateCompensateStep(w, c, f) ==
    LET del == DeleteImage(w, c.product.ImageURL, f) IN
    [w |-> del.w, c |-> Return(Logged(c, del.log), c.err)]

CreateInvalidateStep(w, c, f) ==
    LET inv == invalidateProductCache(w, c.product.Category, c.product.ID, f.redis) IN
    [w |-> inv.w, c |-> Return(Logged(c, inv.log), NoError)]

-----------------------------------------------------------------------------
(* ProductService.UpdateProduct *)

\* goes on with the update when the lookup found no row
UpdateGetStep_NoNilCheck(w, c, f) ==
    LET c1 == Logged(c, <<Event("repo.GetByID", NoURL, NoKey, ~f.db)>>)
        oldProduct == Row(w, c.product.ID)
    IN
    IF f.db THEN [w |-> w, c |-> Return(c1, ErrDB)]
    ELSE IF c.hasFile
    THEN [w |-> w, c |-> [c1 EXCEPT !.oldProduct = oldProduct, !.pc = "update_upload"]]
    ELSE [w |-> w, c |-> [c1 EXCEPT !.oldProduct = oldProduct,
                                    !.product.ImageURL = oldProduct.ImageURL,
                                    !.pc = "update_write"]]

\* keeps the image URL the caller passed in when there is no upload
UpdateGetStep_KeepsCallerURL(w, c, f) ==
    LET c1 == Logged(c, <<Event("repo.GetByID", NoURL, NoKey, ~f.db)>>)
        oldProduct == Row(w, c.product.ID)
    IN
    IF f.db THEN [w |-> w, c |-> Return(c1, ErrDB)]
    ELSE IF oldProduct = NilProduct THEN [w |-> w, c |-> Return(c1, ErrProductNotFound)]
    ELSE IF c.hasFile
    THEN [w |-> w, c |-> [c1 EXCEPT !.oldProduct = oldProduct, !.pc = "update_upload"]]
    ELSE [w |-> w, c |-> [c1 EXCEPT !.oldProduct = oldProduct, !.pc = "update_write"]]

UpdateGetStep(w, c, f) ==
    LET c1 == Logged(c, <<Event("repo.GetByID", NoURL, NoKey, ~f.db)>>)
        oldProduct == Row(w, c.product.ID)
    IN
    IF f.db THEN [w |-> w, c |-> Return(c1, ErrDB)]
    ELSE IF oldProduct = NilProduct THEN [w |-> w, c |-> Return(c1, ErrProductNotFound)]
    ELSE IF c.hasFile
    THEN [w |-> w, c |-> [c1 EXCEPT !.oldProduct = oldProduct, !.pc = "update_upload"]]
    ELSE [w |-> w, c |-> [c1 EXCEPT !.oldProduct = oldProduct,
                                    !.product.ImageURL = oldProduct.ImageURL,
                                    !.pc = "update_write"]]

UpdateUploadStep(w, c, f) ==
    LET up == UploadImage(w, c.header, f) IN
    IF up.err # NoError
    THEN [w |-> up.w, c |-> Return(Logged(c, up.log), up.err)]
    ELSE IF c.oldProduct.ImageURL # NoURL
    THEN [w |-> up.w,
          c |-> [Logged(c, up.log) EXCEPT !.imageURL = up.url, !.pc = "update_delete_old"]]
    ELSE [w |-> up.w,
          c |-> [Logged(c, up.log) EXCEPT !.imageURL = up.url,
                                          !.product.ImageURL = up.url,
                                          !.pc = "update_write"]]

UpdateDeleteOldStep(w, c, f) ==
    LET del == DeleteImage(w, c.oldProduct.ImageURL, f) IN
    [w |-> del.w,
     c |-> [Logged(c, del.log) EXCEPT !.product.ImageURL = c.imageURL,
                                      !.pc = "update_write"]]

\* the first write wins: a row that changed since the call read it is left
\* as it is
UpdateWriteStep_FirstWriteWins(w, c, f) ==
    LET err == IF f.db THEN ErrDB
               ELSE IF c.product.ID \notin DOMAIN w.repo THEN ErrNoRowsAffected
               ELSE NoError
        c1 == Logged(c, <<Event("repo.Update", NoURL, NoKey, err = NoError)>>)
    IN
    IF err # NoError
    THEN IF c.product.ImageURL # NoURL /\ c.product.ImageURL # c.oldProduct.ImageURL
         THEN [w |-> w, c |-> [c1 EXCEPT !.pc = "update_compensate", !.err = err]]
         ELSE [w |-> w, c |-> Return(c1, err)]
    ELSE IF w.repo[c.product.ID] # c.oldProduct
    THEN [w |-> w, c |-> [c1 EXCEPT !.pc = "update_invalidate"]]
    ELSE [w |-> [w EXCEPT !.repo = With(@, c.product.ID, c.product)],
          c |-> [c1 EXCEPT !.pc = "update_invalidate"]]

UpdateWriteStep(w, c, f) ==
    LET err == IF f.db THEN ErrDB
               ELSE IF c.product.ID \notin DOMAIN w.repo THEN ErrNoRowsAffected
               ELSE NoError
        c1 == Logged(c, <<Event("repo.Update", NoURL, NoKey, err = NoError)>>)
    IN
    IF err # NoError
    THEN IF c.product.ImageURL # NoURL /\ c.product.ImageURL # c.oldProduct.ImageURL
         THEN [w |-> w, c |-> [c1 EXCEPT !.pc = "update_compensate", !.err = err]]
         ELSE [w |-> w, c |-> Return(c1, err)]
    ELSE [w |-> [w EXCEPT !.repo = With(@, c.product.ID, c.product)],
          c |-> [c1 EXCEPT !.pc = "update_invalidate"]]

UpdateCompensateStep(w, c, f) ==
    LET del == DeleteImage(w, c.product.ImageURL, f) IN
    [w |-> del.w, c |-> Return(Logged(c, del.log), c.err)]

\* forgets the list key of the new category
UpdateInvalidateStep_OldCategoryOnly(w, c, f) ==
    LET inv == invalidateProductCache(w, c.oldProduct.Category, c.product.ID, f.redis) IN
    [w |-> inv.w, c |-> Return(Logged(c, inv.log), NoError)]

UpdateInvalidateStep(w, c, f) ==
    LET inv == invalidateProductCache(w, c.oldProduct.Category, c.product.ID, f.redis) IN
    IF c.oldProduct.Category # c.product.Category
    THEN [w |-> inv.w, c |-> [Logged(c, inv.log) EXCEPT !.pc = "update_invalidate_new"]]
    ELSE [w |-> inv.w, c |-> Return(Logged(c, inv.log), NoError)]

UpdateInvalidateNewStep(w, c, f) ==
    LET inv == invalidateProductCache(w, c.product.Category, c.product.ID, f.redis) IN
    [w |-> inv.w, c |-> Return(Logged(c, inv.log), NoError)]

-----------------------------------------------------------------------------
(* ProductService.DeleteProduct *)

\* goes on to delete when the lookup found no row
DeleteGetStep_NoNilCheck(w, c, f) ==
    LET c1 == Logged(c, <<Event("repo.GetByID", NoURL, NoKey, ~f.db)>>)
        product == Row(w, c.product.ID)
    IN
    IF f.db THEN [w |-> w, c |-> Return(c1, ErrDB)]
    ELSE [w |-> w,
          c |-> [c1 EXCEPT !.oldProduct = product,
                           !.pc = IF product.ImageURL # NoURL THEN "delete_image"
                                  ELSE "delete_row"]]

DeleteGetStep(w, c, f) ==
    LET c1 == Logged(c, <<Event("repo.GetByID", NoURL, NoKey, ~f.db)>>)
        product == Row(w, c.product.ID)
    IN
    IF f.db THEN [w |-> w, c |-> Return(c1, ErrDB)]
    ELSE IF product = NilProduct THEN [w |-> w, c |-> Return(c1, ErrProductNotFound)]
    ELSE [w |-> w,
          c |-> [c1 EXCEPT !.oldProduct = product,
                           !.pc = IF product.ImageURL # NoURL THEN "delete_image"
                                  ELSE "delete_row"]]

\* gives up when the image cannot be deleted
DeleteImageStep_StopsOnFailure(w, c, f) ==
    LET del == DeleteImage(w, c.oldProduct.ImageURL, f) IN
    IF f.s3 THEN [w |-> del.w, c |-> Return(Logged(c, del.log), "s3 error")]
    ELSE [w |-> del.w, c |-> [Logged(c, del.log) EXCEPT !.pc = "delete_row"]]

DeleteImageStep(w, c, f) ==
    LET del == DeleteImage(w, c.oldProduct.ImageURL, f) IN
    [w |-> del.w, c |-> [Logged(c, del.log) EXCEPT !.pc = "delete_row"]]

DeleteRowStep(w, c, f) ==
    LET err == IF f.db THEN ErrDB
               ELSE IF c.product.ID \notin DOMAIN w.repo THEN ErrNoRowsAffected
               ELSE NoError
        c1 == Logged(c, <<Event("repo.Delete", NoURL, NoKey, err = NoError)>>)
    IN
    IF err # NoError THEN [w |-> w, c |-> Return(c1, err)]
    ELSE [w |-> [w EXCEPT !.repo = Without(@, c.product.ID)],
          c |-> [c1 EXCEPT !.pc = "delete_invalidate"]]

DeleteInvalidateStep(w, c, f) ==
    LET inv == invalidateProductCache(w, c.oldProduct.Category, c.product.ID, f.redis) IN
    [w |-> [inv.w EXCEPT !.deletedOK = @ \cup {c.product.ID}],
     c |-> Return(Logged(c, inv.log), NoError)]

-----------------------------------------------------------------------------
(* ProductService.UpdateStock *)

StockWriteStep(w, c, f) ==
    LET err == IF f.db THEN ErrDB
               ELSE IF c.product.ID \notin DOMAIN w.repo THEN ErrNoRowsAffected
               ELSE NoError
        c1 == Logged(c, <<Event("repo.UpdateStock", NoURL, NoKey, err = NoError)>>)
    IN
    IF err # NoError THEN [w |-> w, c |-> Return(c1, err)]
    ELSE [w |-> [w EXCEPT !.repo[c.product.ID].Stock = c.product.Stock],
          c |-> [c1 EXCEPT !.pc = "stock_invalidate"]]

\* returns the cache's error to the caller
StockInvalidateStep_ReturnsCacheError(w, c, f) ==
    LET del == CacheDelete(w, ProductKey(c.product.ID), f.redis) IN
    [w |-> del.w, c |-> Return(Logged(c, del.log), IF f.redis THEN "redis error" ELSE NoError)]

StockInvalidateStep(w, c, f) ==
    LET del == CacheDelete(w, ProductKey(c.product.ID), f.redis) IN
    [w |-> del.w, c |-> Return(Logged(c, del.log), NoError)]

-----------------------------------------------------------------------------
(* ProductService.GetProduct and its goroutine *)

\* returns the cache's error to the caller
GetCacheStep_ReturnsCacheError(w, c, f) ==
    LET got == CacheGet(w, ProductKey(c.product.ID), f.redis)
        c1 == [Logged(c, <<Event("cache.Get", NoURL, ProductKey(c.product.ID), ~got.err)>>)
                 EXCEPT !.expectHit = (c.product.ID \in w.fresh /\ ~f.redis)]
    IN
    IF got.err THEN [w |-> w, c |-> Return(c1, "redis error")]
    ELSE IF got.product # NilProduct
    THEN [w |-> w, c |-> [Return(c1, NoError) EXCEPT !.ret = got.product]]
    ELSE [w |-> w, c |-> [c1 EXCEPT !.pc = "get_repo"]]

GetCacheStep(w, c, f) ==
    LET got == CacheGet(w, ProductKey(c.product.ID), f.redis)
        c1 == [Logged(c, <<Event("cache.Get", NoURL, ProductKey(c.product.ID), ~got.err)>>)
                 EXCEPT !.expectHit = (c.product.ID \in w.fresh /\ ~f.redis)]
    IN
    IF ~got.err /\ got.product # NilProduct
    THEN [w |-> w, c |-> [Return(c1, NoError) EXCEPT !.ret = got.product]]
    ELSE [w |-> w, c |-> [c1 EXCEPT !.pc = "get_repo"]]

GetRepoStep(w, c, f) ==
    LET c1 == Logged(c, <<Event("repo.GetByID", NoURL, NoKey, ~f.db)>>)
        product == Row(w, c.product.ID)
    IN
    IF f.db THEN [w |-> w, c |-> Return(c1, ErrDB)]
    ELSE IF product = NilProduct THEN [w |-> w, c |-> Return(c1, ErrProductNotFound)]
    ELSE [w |-> [w EXCEPT !.tasks = Spawn(@, [id |-> c.product.ID,
                                              key |-> ProductKey(c.product.ID),
                                              product |-> product])],
          c |-> [Return(c1, NoError) EXCEPT !.ret = product]]

CacheSetTask(w, t, f) ==
    LET w1 == CacheSet(w, t.key, t.product, f.redis) IN
    [w1 EXCEPT !.tasks = Finish(@, t),
               !.fresh = IF f.redis THEN @ ELSE @ \cup {t.id}]

\* the key's TTL runs out
Expire(w, key) ==
    [w EXCEPT !.cache = Without(@, key),
              !.fresh = { id \in @ : ProductKey(id) # key }]

-----------------------------------------------------------------------------
(* ProductHandler.ListProducts over ProductService.ListProducts *)

\* WHERE category = $1, or every row when the filter is empty
Matching(w, category) ==
    { id \in DOMAIN w.repo : category = "" \/ w.repo[id].Category = category }

RECURSIVE Descending(_)
Descending(ids) ==
    IF ids = {} THEN <<>>
    ELSE LET top == CHOOSE i \in ids : \A j \in ids : j <= i
         IN <<top>> \o Descending(ids \ {top})

\* ORDER BY created_at DESC: rows are created in the order of their ids
Recent(w, category) ==
    LET ids == Descending(Matching(w, category)) IN
    [i \in 1..Len(ids) |-> w.repo[ids[i]]]

\* LIMIT limit OFFSET offset of rows
Window(rows, limit, offset) ==
    IF ~Less64(offset, FromNat(Len(rows))) THEN <<>>
    ELSE LET last == IF ToNat(offset) + limit < Len(rows) THEN ToNat(offset) + limit
                     ELSE Len(rows)
         IN SubSeq(rows, ToNat(offset) + 1, last)

\* the handler's reading of page and page_size
PageOf(rawPage) == IF Less64(rawPage, One64) THEN One64 ELSE rawPage

PageSizeOf(rawPageSize) ==
    IF Less64(rawPageSize, One64) \/ Less64(FromNat(100), rawPageSize) THEN 20
    ELSE ToNat(rawPageSize)

HasMore(page, pageSize, total) ==
    total > 0 /\ Less64(Mul64(page, pageSize), FromNat(total))

ListKeyOf(category) == IF category # "" THEN ListKey(category) ELSE ListKey("all")

\* json.Marshal of a []*entity.Product: a nil slice is null
MarshalList(items) ==
    IF items = <<>> THEN [kind |-> "null", items |-> <<>>]
    ELSE [kind |-> "array", items |-> items]

\* answers from the list cache when the key is there
ListRowsStep_ReadsCache(w, c, f) ==
    LET key == ListKeyOf(c.list.category)
        offset == Mul64(Dec64(c.list.page), c.list.pageSize)
        ok == ~f.db /\ ~IsNegative(offset)
        c1 == [Logged(c, <<Event("repo.List", NoURL, NoKey, ok)>>)
                 EXCEPT !.list.offset = offset]
    IN
    IF key \in DOMAIN w.cache
    THEN [w |-> w,
          c |-> [Return(Logged(c, <<Event("cache.Get", NoURL, key, TRUE)>>), NoError)
                    EXCEPT !.list.items = w.cache[key].items,
                           !.list.total = Len(w.cache[key].items)]]
    ELSE IF ~ok THEN [w |-> w, c |-> Return(c1, ErrDB)]
    ELSE [w |-> w,
          c |-> [c1 EXCEPT !.list.items = Window(Recent(w, c.list.category),
                                                  c.list.pageSize, offset),
                           !.pc = "list_count"]]

ListRowsStep(w, c, f) ==
    LET offset == Mul64(Dec64(c.list.page), c.list.pageSize)
        ok == ~f.db /\ ~IsNegative(offset)
        c1 == [Logged(c, <<Event("repo.List", NoURL, NoKey, ok)>>)
                 EXCEPT !.list.offset = offset]
    IN
    IF ~ok THEN [w |-> w, c |-> Return(c1, ErrDB)]
    ELSE [w |-> w,
          c |-> [c1 EXCEPT !.list.items = Window(Recent(w, c.list.category),
                                                  c.list.pageSize, offset),
                           !.pc = "list_count"]]

ListCountStep(w, c, f) ==
    LET c1 == Logged(c, <<Event("repo.Count", NoURL, NoKey, ~f.db)>>)
        total == Cardinality(Matching(w, c.list.category))
    IN
    IF f.db THEN [w |-> w, c |-> [Return(c1, ErrDB) EXCEPT !.list.items = <<>>]]
    ELSE [w |-> [w EXCEPT !.tasks = Spawn(@, [id |-> 0,
                                             key |-> ListKeyOf(c.list.category),
                                             list |-> c.list.items])],
          c |-> [Return(c1, NoError)
                    EXCEPT !.list.total = total,
                           !.list.hasMore = HasMore(c.list.page, c.list.pageSize, total)]]

\* go s.cache.Set(context.Background(), cacheKey, products)
ListCacheSetTask(w, t, f) ==
    [w EXCEPT !.cache = IF f.redis THEN @ ELSE With(@, t.key, MarshalList(t.list)),
              !.tasks = Finish(@, t)]

\* the list request as the handler hands it to the service
NewListCall(category, rawPage, rawPageSize) ==
    [IdleCall EXCEPT !.op = "List", !.pc = "list_rows",
                     !.list = [NoList EXCEPT !.category = category,
                                             !.rawPage = rawPage,
                                             !.rawPageSize = rawPageSize,
                                             !.page = PageOf(rawPage),
                                             !.pageSize = PageSizeOf(rawPageSize)]]

-----------------------------------------------------------------------------
(* One step of a call, by its position *)

WriteOps == {"Update", "Delete", "UpdateStock"}

Step(w, c, f) ==
    CASE c.pc = "create_upload" -> CreateUploadStep(w, c, f)
      [] c.pc = "create_insert" -> CreateInsertStep(w, c, f)
      [] c.pc = "create_compensate" -> CreateCompensateStep(w, c, f)
      [] c.pc = "create_invalidate" -> CreateInvalidateStep(w, c, f)
      [] c.pc = "update_get" -> UpdateGetStep(w, c, f)
      [] c.pc = "update_upload" -> UpdateUploadStep(w, c, f)
      [] c.pc = "update_delete_old" -> UpdateDeleteOldStep(w, c, f)
      [] c.pc = "update_write" -> UpdateWriteStep(w, c, f)
      [] c.pc = "update_compensate" -> UpdateCompensateStep(w, c, f)
      [] c.pc = "update_invalidate" -> UpdateInvalidateStep(w, c, f)
      [] c.pc = "update_invalidate_new" -> UpdateInvalidateNewStep(w, c, f)
      [] c.pc = "delete_get" -> DeleteGetStep(w, c, f)
      [] c.pc = "delete_image" -> DeleteImageStep(w, c, f)
      [] c.pc = "delete_row" -> DeleteRowStep(w, c, f)
      [] c.pc = "delete_invalidate" -> DeleteInvalidateStep(w, c, f)
      [] c.pc = "stock_write" -> StockWriteStep(w, c, f)
      [] c.pc = "stock_invalidate" -> StockInvalidateStep(w, c, f)
      [] c.pc = "get_cache" -> GetCacheStep(w, c, f)
      [] c.pc = "get_repo" -> GetRepoStep(w, c, f)
      [] c.pc = "list_rows" -> ListRowsStep(w, c, f)
      [] c.pc = "list_count" -> ListCountStep(w, c, f)
      [] OTHER -> [w |-> w, c |-> c]

\* history: a step of a write to id ends the freshness of id's cache entry
StepCall(w, c, f) ==
    LET r == Step(w, c, f) IN
    IF c.op \in WriteOps THEN [r EXCEPT !.w.fresh = @ \ {c.product.ID}] ELSE r

\* the call as the caller makes it
NewCall(w, op, product, hasFile, header) ==
    [IdleCall EXCEPT !.op = op, !.product = product,
                     !.hasFile = hasFile, !.header = header,
                     !.afterDelete = (product.ID \in w.deletedOK),
                     !.pc = CASE op = "Create" ->
                                    IF hasFile THEN "create_upload" ELSE "create_insert"
                              [] op = "Update" -> "update_get"
                              [] op = "Delete" -> "delete_get"
                              [] op = "UpdateStock" -> "stock_write"
                              [] OTHER -> "get_cache"]

-----------------------------------------------------------------------------
(* The catalog under concurrent requests *)

FirstIDs == {1, 55296}

Stocks == {0}

PngUpload == [Size |-> MaxUploadSize, ContentType |-> "image/png",
              Filename |-> <<"a", ".", "p", "n", "g">>]

HugeUpload == [PngUpload EXCEPT !.Size = MaxUploadSize + 1]

GifUpload == [Size |-> 1, ContentType |-> "image/gif",
              Filename |-> <<"a", ".", "g", "i", "f">>]

\* what a request may carry as its image part: <<present, header>>
Uploads == { <<FALSE, NoHeader>>, <<TRUE, PngUpload>>, <<TRUE, HugeUpload>>,
             <<TRUE, GifUpload>> }

\* the image URL of the product an UpdateProduct caller passes in: none, or
\* the first blob's
SnapshotURLs == {NoURL, 1}

World ==
    [repo |-> repo, nextID |-> nextID, blobs |-> blobs, nextURL |-> nextURL,
     cache |-> cache, tasks |-> tasks, deletedOK |-> deletedOK, fresh |-> fresh]

\* ids a request can name: a row, a deleted row, or the id not yet assigned
RequestIDs(w) == DOMAIN w.repo \cup w.deletedOK \cup {w.nextID}

SetWorld(w) ==
    /\ repo' = w.repo
    /\ nextID' = w.nextID
    /\ blobs' = w.blobs
    /\ nextURL' = w.nextURL
    /\ cache' = w.cache
    /\ tasks' = w.tasks
    /\ deletedOK' = w.deletedOK
    /\ fresh' = w.fresh

Advance(s, f) ==
    \E r \in {StepCall(World, calls[s], f)} :
        /\ SetWorld(r.w)
        /\ calls' = [calls EXCEPT ![s] = r.c]
        /\ UNCHANGED <<started, twinVars, img, users>>

\* a request takes the first free slot
Begin(s, c) ==
    /\ calls[s].pc \in {"idle", "done"}
    /\ \A r \in Slots : r < s => calls[r].pc \notin {"idle", "done"}
    /\ started < MaxCalls
    /\ started' = started + 1
    /\ calls' = [calls EXCEPT ![s] = c]
    /\ fresh' = IF c.op \in WriteOps THEN fresh \ {c.product.ID} ELSE fresh
    /\ UNCHANGED <<repo, nextID, blobs, nextURL, cache, tasks, deletedOK, twinVars, img, users>>

\* the ImageURL of the caller's product matters only without an upload: an
\* upload replaces it or ends the call
BeginCreate(s) ==
    \E cat \in Categories, up \in Uploads :
        \E url \in IF up[1] THEN {NoURL} ELSE SnapshotURLs :
            Begin(s, NewCall(World, "Create",
                             [NilProduct EXCEPT !.Price = 1, !.Category = cat, !.Stock = 1,
                                                !.ImageURL = url],
                             up[1], up[2]))

BeginUpdate(s) ==
    \E id \in RequestIDs(World), cat \in Categories, stock \in Stocks,
       url \in SnapshotURLs, up \in Uploads :
        Begin(s, NewCall(World, "Update",
                         [ID |-> id, Price |-> 1, Category |-> cat, Stock |-> stock,
                          ImageURL |-> url],
                         up[1], up[2]))

BeginDelete(s) ==
    \E id \in RequestIDs(World) :
        Begin(s, NewCall(World, "Delete",
                         [NilProduct EXCEPT !.ID = id], FALSE, NoHeader))

BeginUpdateStock(s) ==
    \E id \in RequestIDs(World), stock \in Stocks :
        Begin(s, NewCall(World, "UpdateStock",
                         [NilProduct EXCEPT !.ID = id, !.Stock = stock], FALSE, NoHeader))

BeginGet(s) ==
    \E id \in RequestIDs(World) :
        Begin(s, NewCall(World, "Get",
                         [NilProduct EXCEPT !.ID = id], FALSE, NoHeader))

CreateUpload(s) == calls[s].pc = "create_upload" /\ \E f \in S3Faults : Advance(s, f)
CreateInsert(s) == calls[s].pc = "create_insert" /\ \E f \in DBFaults : Advance(s, f)
CreateCompensate(s) == calls[s].pc = "create_compensate" /\ \E f \in S3Faults : Advance(s, f)
CreateInvalidate(s) == calls[s].pc = "create_invalidate" /\ \E f \in RedisFaults : Advance(s, f)

UpdateGet(s) == calls[s].pc = "update_get" /\ \E f \in DBFaults : Advance(s, f)
UpdateUpload(s) == calls[s].pc = "update_upload" /\ \E f \in S3Faults : Advance(s, f)
UpdateDeleteOld(s) == calls[s].pc = "update_delete_old" /\ \E f \in S3Faults : Advance(s, f)
UpdateWrite(s) == calls[s].pc = "update_write" /\ \E f \in DBFaults : Advance(s, f)
UpdateCompensate(s) == calls[s].pc = "update_compensate" /\ \E f \in S3Faults : Advance(s, f)
UpdateInvalidate(s) == calls[s].pc = "update_invalidate" /\ \E f \in RedisFaults : Advance(s, f)
UpdateInvalidateNew(s) ==
    calls[s].pc = "update_invalidate_new" /\ \E f \in RedisFaults : Advance(s, f)

DeleteGet(s) == calls[s].pc = "delete_get" /\ \E f \in DBFaults : Advance(s, f)
DeleteImg(s) == calls[s].pc = "delete_image" /\ \E f \in S3Faults : Advance(s, f)
DeleteRow(s) == calls[s].pc = "delete_row" /\ \E f \in DBFaults : Advance(s, f)
DeleteInvalidate(s) == calls[s].pc = "delete_invalidate" /\ \E f \in RedisFaults : Advance(s, f)

StockWrite(s) == calls[s].pc = "stock_write" /\ \E f \in DBFaults : Advance(s, f)
StockInvalidate(s) == calls[s].pc = "stock_invalidate" /\ \E f \in RedisFaults : Advance(s, f)

GetCache(s) == calls[s].pc = "get_cache" /\ \E f \in RedisFaults : Advance(s, f)
GetRepo(s) == calls[s].pc = "get_repo" /\ \E f \in DBFaults : Advance(s, f)

RunCacheSet ==
    \E t \in DOMAIN tasks, f \in RedisFaults :
        /\ "product" \in DOMAIN t
        /\ \E w \in {CacheSetTask(World, t, f)} : SetWorld(w)
        /\ UNCHANGED <<calls, started, twinVars, img, users>>

ExpireKey ==
    \E key \in DOMAIN cache :
        /\ \E w \in {Expire(World, key)} : SetWorld(w)
        /\ UNCHANGED <<calls, started, twinVars, img, users>>

TwinIdle == [w |-> NewWorld(1, FALSE), c |-> IdleCall]

Init ==
    /\ \E first \in FirstIDs :
        LET w == NewWorld(first, TRUE) IN
        /\ repo = w.repo
        /\ nextID = w.nextID
        /\ blobs = w.blobs
        /\ nextURL = w.nextURL
        /\ cache = w.cache
        /\ tasks = w.tasks
        /\ deletedOK = w.deletedOK
        /\ fresh = w.fresh
    /\ calls = [s \in Slots |-> IdleCall]
    /\ started = 0
    /\ twinA = TwinIdle
    /\ twinB = TwinIdle
    /\ users = NoUsers
    /\ img = ImgIdle

Next ==
    \/ \E s \in Slots : BeginCreate(s)
    \/ \E s \in Slots : BeginUpdate(s)
    \/ \E s \in Slots : BeginDelete(s)
    \/ \E s \in Slots : BeginUpdateStock(s)
    \/ \E s \in Slots : BeginGet(s)
    \/ \E s \in Slots : CreateUpload(s)
    \/ \E s \in Slots : CreateInsert(s)
    \/ \E s \in Slots : CreateCompensate(s)
    \/ \E s \in Slots : CreateInvalidate(s)
    \/ \E s \in Slots : UpdateGet(s)
    \/ \E s \in Slots : UpdateUpload(s)
    \/ \E s \in Slots : UpdateDeleteOld(s)
    \/ \E s \in Slots : UpdateWrite(s)
    \/ \E s \in Slots : UpdateCompensate(s)
    \/ \E s \in Slots : UpdateInvalidate(s)
    \/ \E s \in Slots : UpdateInvalidateNew(s)
    \/ \E s \in Slots : DeleteGet(s)
    \/ \E s \in Slots : DeleteImg(s)
    \/ \E s \in Slots : DeleteRow(s)
    \/ \E s \in Slots : DeleteInvalidate(s)
    \/ \E s \in Slots : StockWrite(s)
    \/ \E s \in Slots : StockInvalidate(s)
    \/ \E s \in Slots : GetCache(s)
    \/ \E s \in Slots : GetRepo(s)
    \/ RunCacheSet
    \/ ExpireKey

Spec == Init /\ [][Next]_vars

-----------------------------------------------------------------------------
(* ImageService.ValidateImage on every header and allow-list *)

InitValidate ==
    /\ \E allowed \in AllowLists, header \in Headers :
        img = [allowed |-> allowed, header |-> header, validated |-> FALSE, err |-> NoError]
    /\ repo = NewWorld(1, FALSE).repo
    /\ nextID = NewWorld(1, FALSE).nextID
    /\ blobs = NewWorld(1, FALSE).blobs
    /\ nextURL = NewWorld(1, FALSE).nextURL
    /\ cache = EmptyMap
    /\ tasks = EmptyMap
    /\ deletedOK = {}
    /\ fresh = {}
    /\ calls = [s \in Slots |-> IdleCall]
    /\ started = 0
    /\ twinA = TwinIdle
    /\ twinB = TwinIdle
    /\ users = NoUsers

Validate ==
    /\ ~img.validated
    /\ img' = [img EXCEPT !.validated = TRUE, !.err = ValidateImage(img.allowed, img.header)]
    /\ UNCHANGED <<catalogVars, twinVars, users>>

NextValidate == Validate

SpecValidate == InitValidate /\ [][NextValidate]_vars

-----------------------------------------------------------------------------
(* C10 *)

KnownExtensions == { <<".", "j", "p", "g">>, <<".", "j", "p", "e", "g">>,
                     <<".", "p", "n", "g">>, <<".", "w", "e", "b", "p">> }

CanonicalMIME(e) ==
    IF e = <<".", "p", "n", "g">> THEN "image/png"
    ELSE IF e = <<".", "w", "e", "b", "p">> THEN "image/webp"
    ELSE "image/jpeg"

SameIgnoringCase(a, b) ==
    /\ Len(a) = Len(b)
    /\ \A k \in 1..Len(a) : ToLowerChar(a[k]) = ToLowerChar(b[k])

\* name ends in extension e: e starts at the last dot of the last path element
HasExtension(name, e) ==
    \E i \in 1..Len(name) :
        /\ name[i] = "."
        /\ \A j \in (i + 1)..Len(name) : name[j] \notin {".", "/"}
        /\ SameIgnoringCase(SubSeq(name, i, Len(name)), e)
        /\ e = ToLower(e)

Acceptable(allowed, h) ==
    /\ h.Size <= MaxUploadSize
    /\ h.ContentType \in allowed
    /\ \E e \in KnownExtensions : HasExtension(h.Filename, e) /\ CanonicalMIME(e) \in allowed

\* C10: ValidateImage accepts an upload exactly when its size is within the
\* maximum, its declared content type is allow-listed and its lower-cased
\* extension is .jpg/.jpeg/.png/.webp with an allow-listed canonical MIME type;
\* it answers FileTooLarge whenever the size exceeds the maximum and
\* InvalidFileType for every other rejection.
C10_ValidateImage ==
    img.validated =>
        /\ (img.err = NoError) <=> Acceptable(img.allowed, img.header)
        /\ (img.header.Size > MaxUploadSize) => (img.err = ErrFileTooLarge)
        /\ (img.header.Size <= MaxUploadSize /\ ~Acceptable(img.allowed, img.header))
              => (img.err = ErrInvalidFileType)

\* an oversized upload of a type that is not allowed has been answered
C10_Witness ==
    /\ img.validated
    /\ img.header.Size > MaxUploadSize
    /\ img.header.ContentType \notin img.allowed
    /\ img.err = ErrFileTooLarge

-----------------------------------------------------------------------------
(* Reading a call's log *)

Events(c, call) == { i \in 1..Len(c.log) : c.log[i].call = call }

EventsOn(c, call, url) == { i \in Events(c, call) : c.log[i].url = url }

Succeeded(c, call) == { i \in Events(c, call) : c.log[i].ok }

Failed(c, call) == { i \in Events(c, call) : ~c.log[i].ok }

CacheEvents(c) == Events(c, "cache.Get") \cup Events(c, "cache.Delete")

S3Events(c) == Events(c, "s3.UploadFile") \cup Events(c, "s3.DeleteFile")

\* the call of slot s takes a step
Moves(s) == calls[s].pc \notin {"idle", "done"} /\ calls'[s] # calls[s]

-----------------------------------------------------------------------------
(* C1 *)

\* C1: in an UpdateProduct call that carries a new upload and replaces an
\* existing image, the delete of the old image URL comes only after the
\* Repository Update of that call has returned success.
C1_OldImageDeletedOnlyAfterUpdate ==
    \A s \in Slots :
        LET c == calls[s] IN
        (c.op = "Update" /\ c.hasFile /\ c.oldProduct.ImageURL # NoURL) =>
            \A i \in EventsOn(c, "s3.DeleteFile", c.oldProduct.ImageURL) :
                \E j \in Succeeded(c, "repo.Update") : j < i

-----------------------------------------------------------------------------
(* C2 *)

\* C2: when a new image was uploaded and the Repository Update then fails,
\* the call returns with the new image deleted, no delete issued for the old
\* image URL, and the old image blob still stored.
C2_FailedUpdateKeepsOldImage ==
    \A s \in Slots :
        LET c == calls[s] IN
        (c.op = "Update" /\ c.pc = "done" /\ c.imageURL # NoURL
            /\ Failed(c, "repo.Update") # {}) =>
            /\ EventsOn(c, "s3.DeleteFile", c.imageURL) # {}
            /\ EventsOn(c, "s3.DeleteFile", c.oldProduct.ImageURL) = {}
            /\ c.oldProduct.ImageURL # NoURL => c.oldProduct.ImageURL \in blobs

-----------------------------------------------------------------------------
(* C3 *)

\* C3: when CreateProduct's upload succeeds and the Repository insert then
\* fails, the Image Gateway delete is invoked exactly once, with the URL the
\* upload returned, and the insert error is returned, also when that delete
\* fails.
C3_FailedInsertDeletesUploadOnce ==
    \A s \in Slots :
        LET c == calls[s] IN
        (c.op = "Create" /\ c.pc = "done" /\ c.imageURL # NoURL
            /\ Failed(c, "repo.Create") # {}) =>
            /\ Cardinality(Events(c, "s3.DeleteFile")) = 1
            /\ Events(c, "s3.DeleteFile") = EventsOn(c, "s3.DeleteFile", c.imageURL)
            /\ c.err = ErrDB

\* a create whose insert failed after the upload and whose compensating
\* delete failed as well has returned
C3_Witness ==
    \E s \in Slots :
        LET c == calls[s] IN
        /\ c.op = "Create" /\ c.pc = "done" /\ c.imageURL # NoURL
        /\ Failed(c, "repo.Create") # {}
        /\ Failed(c, "s3.DeleteFile") # {}
        /\ c.imageURL \in blobs

-----------------------------------------------------------------------------
(* C9 *)

ValidationErrors == {ErrFileTooLarge, ErrInvalidFileType}

C9_NothingLogged ==
    \A s \in Slots :
        LET c == calls[s] IN
        (c.op = "Create" /\ c.pc = "done"
            /\ c.err \in ValidationErrors \cup {ErrFileUploadFailed}) =>
            /\ Events(c, "repo.Create") = {}
            /\ CacheEvents(c) = {}
            /\ c.err \in ValidationErrors => S3Events(c) = {}

C9_NothingChanged ==
    \A s \in Slots :
        (Moves(s) /\ calls[s].op = "Create" /\ calls'[s].pc = "done"
            /\ calls'[s].err \in ValidationErrors \cup {ErrFileUploadFailed}) =>
            /\ calls[s].log = <<>>
            /\ repo' = repo /\ nextID' = nextID /\ cache' = cache /\ tasks' = tasks
            /\ calls'[s].err \in ValidationErrors => (blobs' = blobs /\ nextURL' = nextURL)

\* C9: a CreateProduct that fails in validation or in the upload inserts no
\* record and touches no cache key; when validation fails it makes no Image
\* Gateway call at all.
C9_FailedUploadLeavesNoTrace == [](C9_NothingLogged) /\ [][C9_NothingChanged]_vars

\* a create rejected by validation and a create whose upload failed
C9_Witness ==
    \E s \in Slots, t \in Slots :
        /\ calls[s].op = "Create" /\ calls[s].pc = "done"
        /\ calls[s].err = ErrFileUploadFailed
        /\ Failed(calls[s], "s3.UploadFile") # {}
        /\ calls[t].op = "Create" /\ calls[t].pc = "done"
        /\ calls[t].err \in ValidationErrors

-----------------------------------------------------------------------------
(* C4 *)

\* C4: once GetProduct(id) has cached the product it read, a later
\* GetProduct(id) with no write to that product in between (and the entry not
\* expired, the cache answering) returns the cached product of that id
\* without calling the Repository.
C4_CachedProductServedWithoutRepository ==
    \A s \in Slots :
        LET c == calls[s] IN
        (c.op = "Get" /\ c.expectHit) =>
            /\ c.pc = "done"
            /\ Events(c, "repo.GetByID") = {}
            /\ c.err = NoError
            /\ c.ret.ID = c.product.ID

\* the same, for ids whose text string(rune(id)) is their own code point
C4_HoldsForValidCodePoints ==
    \A s \in Slots :
        LET c == calls[s] IN
        (c.op = "Get" /\ c.expectHit /\ nextID < 55296) =>
            /\ c.pc = "done"
            /\ Events(c, "repo.GetByID") = {}
            /\ c.err = NoError
            /\ c.ret.ID = c.product.ID

-----------------------------------------------------------------------------
(* C5 *)

\* C5: once DeleteProduct(id) has returned success, every GetProduct(id)
\* that starts afterwards signals ProductNotFound (or the Repository's own
\* failure), whatever the interleaving and also when the cache Delete of the
\* invalidation failed.
C5_DeletionIsTerminal ==
    \A s \in Slots :
        LET c == calls[s] IN
        (c.op = "Get" /\ c.afterDelete /\ c.pc = "done") =>
            c.err \in {ErrProductNotFound, ErrDB}

-----------------------------------------------------------------------------
(* C6 *)

C6_Results ==
    \A s \in Slots :
        LET c == calls[s] IN
        /\ (c.op = "Delete" /\ c.afterDelete) =>
              /\ c.pc \in {"delete_get", "done"}
              /\ c.pc = "done" =>
                    /\ Len(c.log) = 1
                    /\ c.log[1].call = "repo.GetByID"
                    /\ c.err = IF c.log[1].ok THEN ErrProductNotFound ELSE ErrDB
        /\ (c.op = "Delete" /\ c.pc = "done" /\ Succeeded(c, "repo.Delete") # {}) =>
              c.err = NoError

C6_SecondDeleteChangesNothing ==
    \A s \in Slots :
        (Moves(s) /\ calls[s].op = "Delete" /\ calls[s].afterDelete) =>
            /\ repo' = repo /\ nextID' = nextID
            /\ blobs' = blobs /\ nextURL' = nextURL
            /\ cache' = cache /\ tasks' = tasks

\* C6: DeleteProduct on an existing id returns success; a DeleteProduct on
\* that id made afterwards returns ProductNotFound (the Repository answering)
\* and changes nothing in the Repository, the Image Gateway or the cache.
C6_DeleteTwice == [](C6_Results) /\ [][C6_SecondDeleteChangesNothing]_vars

\* the second delete of an id has returned ProductNotFound
C6_Witness ==
    \E s \in Slots :
        LET c == calls[s] IN
        /\ c.op = "Delete" /\ c.afterDelete /\ c.pc = "done"
        /\ c.err = ErrProductNotFound
        /\ c.product.ID \notin DOMAIN repo

-----------------------------------------------------------------------------
(* C7 *)

GetErrors == {NoError, ErrProductNotFound, ErrDB}

C7_Results ==
    \A s \in Slots :
        LET c == calls[s] IN
        (c.op = "Get" /\ c.pc = "done") => c.err \in GetErrors

C7_MissFallsBackToRepository ==
    \A s \in Slots :
        LET c == calls[s]
            d == calls'[s]
        IN
        /\ (Moves(s) /\ c.pc = "get_cache"
              /\ (Failed(d, "cache.Get") # {} \/ ProductKey(c.product.ID) \notin DOMAIN cache))
              => d.pc = "get_repo"
        /\ (Moves(s) /\ c.pc = "get_repo") =>
              /\ d.pc = "done"
              /\ IF Failed(d, "repo.GetByID") # {}
                 THEN d.err = ErrDB /\ d.ret = NilProduct
                 ELSE IF c.product.ID \notin DOMAIN repo
                 THEN d.err = ErrProductNotFound /\ d.ret = NilProduct
                 ELSE d.err = NoError /\ d.ret = repo[c.product.ID]
        /\ (c.op = "Get" /\ c.pc = "done" /\ tasks' # tasks) => d = c

\* C7: GetProduct never returns a cache error: when the cache Get fails or
\* has no entry, its result is the Repository lookup's result (the record,
\* ProductNotFound, or the Repository's error), and the background cache Set,
\* failing or not, does not change a result already returned.
C7_CacheNeverFailsGet == [](C7_Results) /\ [][C7_MissFallsBackToRepository]_vars

\* a GetProduct whose cache Get failed has returned the Repository's record
C7_Witness ==
    \E s \in Slots :
        LET c == calls[s] IN
        /\ c.op = "Get" /\ c.pc = "done"
        /\ Failed(c, "cache.Get") # {}
        /\ c.err = NoError
        /\ c.ret.ID = c.product.ID
        /\ tasks # EmptyMap

-----------------------------------------------------------------------------
(* The same requests against two catalogs that differ only in the cache:   *)
(* in A the cache commands fail as the fault says, in B they never fail.   *)

InitTwin ==
    /\ \E first \in FirstIDs :
        /\ twinA = [w |-> NewWorld(first, TRUE), c |-> IdleCall]
        /\ twinB = [w |-> NewWorld(first, TRUE), c |-> IdleCall]
    /\ repo = NewWorld(1, FALSE).repo
    /\ nextID = NewWorld(1, FALSE).nextID
    /\ blobs = NewWorld(1, FALSE).blobs
    /\ nextURL = NewWorld(1, FALSE).nextURL
    /\ cache = EmptyMap
    /\ tasks = EmptyMap
    /\ deletedOK = {}
    /\ fresh = {}
    /\ calls = [s \in Slots |-> IdleCall]
    /\ started = 0
    /\ img = ImgIdle
    /\ users = NoUsers

TwinStart(op, product, hasFile, header) ==
    /\ twinA.c.pc \in {"idle", "done"}
    /\ twinB.c.pc \in {"idle", "done"}
    /\ started < MaxCalls
    /\ started' = started + 1
    /\ twinA' = [twinA EXCEPT !.c = NewCall(twinA.w, op, product, hasFile, header)]
    /\ twinB' = [twinB EXCEPT !.c = NewCall(twinB.w, op, product, hasFile, header)]
    /\ UNCHANGED <<repo, nextID, blobs, nextURL, cache, tasks, calls, deletedOK, fresh, img, users>>

TwinAdvance(op) ==
    /\ twinA.c.op = op
    /\ twinA.c.pc \notin {"idle", "done"} \/ twinB.c.pc \notin {"idle", "done"}
    /\ \E f \in Faults :
        /\ twinA' = StepCall(twinA.w, twinA.c, f)
        /\ twinB' = StepCall(twinB.w, twinB.c, [f EXCEPT !.redis = FALSE])
    /\ UNCHANGED <<catalogVars, img, users>>

TwinBeginCreate ==
    \E cat \in Categories, up \in Uploads :
        TwinStart("Create", [NilProduct EXCEPT !.Price = 1, !.Category = cat, !.Stock = 1],
                  up[1], up[2])

TwinBeginUpdate ==
    \E id \in RequestIDs(twinA.w), cat \in Categories, stock \in Stocks, up \in Uploads :
        TwinStart("Update",
                  [ID |-> id, Price |-> 1, Category |-> cat, Stock |-> stock, ImageURL |-> NoURL],
                  up[1], up[2])

TwinBeginDelete ==
    \E id \in RequestIDs(twinA.w) :
        TwinStart("Delete", [NilProduct EXCEPT !.ID = id], FALSE, NoHeader)

TwinBeginUpdateStock ==
    \E id \in RequestIDs(twinA.w), stock \in Stocks :
        TwinStart("UpdateStock", [NilProduct EXCEPT !.ID = id, !.Stock = stock],
                  FALSE, NoHeader)

TwinCreate == TwinAdvance("Create")

TwinUpdate == TwinAdvance("Update")

TwinDelete == TwinAdvance("Delete")

TwinUpdateStock == TwinAdvance("UpdateStock")

NextTwin ==
    \/ TwinBeginCreate
    \/ TwinBeginUpdate
    \/ TwinBeginDelete
    \/ TwinBeginUpdateStock
    \/ TwinCreate
    \/ TwinUpdate
    \/ TwinDelete
    \/ TwinUpdateStock

SpecTwin == InitTwin /\ [][NextTwin]_vars

-----------------------------------------------------------------------------
(* C8 *)

\* C8: for CreateProduct, UpdateProduct, DeleteProduct and UpdateStock the
\* outcome returned to the caller and the resulting Repository and Image
\* Gateway state are the same whether the cache Deletes of the invalidation
\* succeed or fail.
C8_CacheFailuresDoNotShow ==
    /\ twinA.c.pc = twinB.c.pc
    /\ twinA.c.err = twinB.c.err
    /\ twinA.c.product = twinB.c.product
    /\ twinA.w.repo = twinB.w.repo
    /\ twinA.w.nextID = twinB.w.nextID
    /\ twinA.w.blobs = twinB.w.blobs
    /\ twinA.w.nextURL = twinB.w.nextURL

\* a write has returned success in both catalogs although its cache Deletes
\* failed in A, where the stale entry is still cached
C8_Witness ==
    /\ twinA.c.pc = "done"
    /\ twinA.c.op \in WriteOps
    /\ twinA.c.err = NoError
    /\ Failed(twinA.c, "cache.Delete") # {}
    /\ Failed(twinB.c, "cache.Delete") = {}
    /\ twinA.w.cache # twinB.w.cache

-----------------------------------------------------------------------------
(* C11 *)

C11_NothingElseCalled ==
    \A s \in Slots :
        LET c == calls[s] IN
        (c.op = "Update" /\ c.pc = "done" /\ c.err = ErrProductNotFound) =>
            /\ Len(c.log) = 1
            /\ c.log[1].call = "repo.GetByID"
            /\ c.oldProduct = NilProduct

C11_AbortsAtTheFetch ==
    \A s \in Slots :
        (Moves(s) /\ calls[s].pc = "update_get" /\ calls[s].product.ID \notin DOMAIN repo
            /\ Failed(calls'[s], "repo.GetByID") = {}) =>
            /\ calls'[s].pc = "done"
            /\ calls'[s].err = ErrProductNotFound
            /\ repo' = repo /\ nextID' = nextID
            /\ blobs' = blobs /\ nextURL' = nextURL
            /\ cache' = cache /\ tasks' = tasks

\* C11: UpdateProduct on an id with no persisted record returns
\* ProductNotFound at the fetch, having made no upload, no Image Gateway
\* delete, no Repository write and no cache invalidation, also when a valid
\* upload is supplied.
C11_UpdateOfAbsentProductAborts ==
    [](C11_NothingElseCalled) /\ [][C11_AbortsAtTheFetch]_vars

\* an update carrying a valid upload has returned ProductNotFound and no blob
\* was stored for it
C11_Witness ==
    \E s \in Slots :
        LET c == calls[s] IN
        /\ c.op = "Update" /\ c.pc = "done" /\ c.err = ErrProductNotFound
        /\ c.hasFile /\ c.header = PngUpload
        /\ c.product.ID \notin DOMAIN repo
        /\ S3Events(c) = {}

-----------------------------------------------------------------------------
(* C12 *)

C12_Returned ==
    \A s \in Slots :
        LET c == calls[s] IN
        (c.op = "Update" /\ ~c.hasFile /\ c.pc = "done" /\ c.err = NoError) =>
            /\ c.product.ImageURL = c.oldProduct.ImageURL
            /\ S3Events(c) = {}

C12_Persisted ==
    \A s \in Slots :
        (Moves(s) /\ calls[s].op = "Update" /\ ~calls[s].hasFile
            /\ calls[s].pc = "update_write" /\ Succeeded(calls'[s], "repo.Update") # {}) =>
            /\ repo'[calls[s].product.ID].ImageURL = calls[s].oldProduct.ImageURL
            /\ blobs' = blobs /\ nextURL' = nextURL

\* C12: a successful UpdateProduct without a new upload persists and returns
\* the image URL of the record it fetched at its start, whatever image URL
\* the caller's product carried, and makes no Image Gateway call.
C12_UpdateWithoutUploadKeepsImage ==
    [](C12_Returned) /\ [][C12_Persisted]_vars

\* such an update has succeeded on a product whose stored image URL is none
\* of those a caller passes in
C12_Witness ==
    \E s \in Slots :
        LET c == calls[s] IN
        /\ c.op = "Update" /\ ~c.hasFile /\ c.pc = "done" /\ c.err = NoError
        /\ c.oldProduct.ImageURL \notin SnapshotURLs
        /\ c.product.ID \in DOMAIN repo
        /\ repo[c.product.ID].ImageURL = c.oldProduct.ImageURL
        /\ c.oldProduct.ImageURL \in blobs

-----------------------------------------------------------------------------
(* One list request against a table that nothing writes *)

ListSizes == {0, 1, 4, 40, 45}

ListCategories == {"", "c1", "c2", "c3"}

\* page and page_size as strconv.Atoi reads them: 0 when the parameter is
\* missing or no number, the largest int when the number is too large
RawPages == { Zero64, MinusOne64, FromNat(1), FromNat(2), FromNat(3), FromNat(4),
              MaxInt64, <<1, 0, 0, Limb \div 4>> }

RawPageSizes == { Zero64, MinusOne64, FromNat(1), FromNat(2), FromNat(4), FromNat(20),
                  FromNat(100), FromNat(101), MaxInt64 }

\* n products, every third one of category c2, the others of c1
Table(n) ==
    [id \in 1..n |-> [ID |-> id, Price |-> 1,
                       Category |-> IF id % 3 = 0 THEN "c2" ELSE "c1",
                       Stock |-> 1, ImageURL |-> NoURL]]

\* the list cache before the request: empty, or every list key holding a
\* list written when the table held a row that has been deleted since
ListCaches ==
    { EmptyMap,
      [key \in { ListKeyOf(category) : category \in ListCategories } |->
          MarshalList(<<SeedRow(99)>>)] }

InitList ==
    /\ \E n \in ListSizes :
        /\ repo = Table(n)
        /\ nextID = n + 1
    /\ blobs = {}
    /\ nextURL = 1
    /\ cache \in ListCaches
    /\ tasks = EmptyMap
    /\ deletedOK = {}
    /\ fresh = {}
    /\ \E category \in ListCategories, rawPage \in RawPages, rawPageSize \in RawPageSizes :
        calls = [s \in Slots |-> IF s = 1 THEN NewListCall(category, rawPage, rawPageSize)
                                 ELSE IdleCall]
    /\ started = 1
    /\ twinA = TwinIdle
    /\ twinB = TwinIdle
    /\ users = NoUsers
    /\ img = ImgIdle

ListRows(s) == calls[s].pc = "list_rows" /\ \E f \in DBFaults : Advance(s, f)

ListCount(s) == calls[s].pc = "list_count" /\ \E f \in DBFaults : Advance(s, f)

RunListCacheSet ==
    \E t \in DOMAIN tasks, f \in RedisFaults :
        /\ "list" \in DOMAIN t
        /\ \E w \in {ListCacheSetTask(World, t, f)} : SetWorld(w)
        /\ UNCHANGED <<calls, started, twinVars, img, users>>

NextList ==
    \/ \E s \in Slots : ListRows(s)
    \/ \E s \in Slots : ListCount(s)
    \/ RunListCacheSet

SpecList == InitList /\ [][NextList]_vars

-----------------------------------------------------------------------------
(* The admin routes: auth.AuthMiddleware, then ProductAdminHandler *)

Digits == {"0", "1", "2", "3", "4", "5", "6", "7", "8", "9"}

DigitValue(ch) ==
    CASE ch = "0" -> 0 [] ch = "1" -> 1 [] ch = "2" -> 2 [] ch = "3" -> 3 [] ch = "4" -> 4
      [] ch = "5" -> 5 [] ch = "6" -> 6 [] ch = "7" -> 7 [] ch = "8" -> 8 [] ch = "9" -> 9

RECURSIVE DecimalValue(_)
DecimalValue(digits) ==
    IF digits = <<>> THEN 0
    ELSE 10 * DecimalValue(SubSeq(digits, 1, Len(digits) - 1)) + DigitValue(digits[Len(digits)])

\* strconv.Atoi on a text of a few characters: an optional sign, then digits
Atoi(text) ==
    LET signed == text # <<>> /\ text[1] \in {"-", "+"}
        digits == IF signed THEN Tail(text) ELSE text
    IN
    IF digits = <<>> \/ \E i \in 1..Len(digits) : digits[i] \notin Digits
    THEN [err |-> TRUE, value |-> 0]
    ELSE [err |-> FALSE,
          value |-> IF signed /\ text[1] = "-" THEN 0 - DecimalValue(digits)
                    ELSE DecimalValue(digits)]

\* strconv.ParseFloat on the texts of the forms below, which carry no
\* fraction and no exponent: the number Atoi gives
ParseFloat(text) == Atoi(text)

\* jwtManager.Verify as the middleware sees it: an error, or the claims of
\* the token with their role
Verify(token) ==
    CASE token = "admin-token" -> [err |-> FALSE, role |-> "admin"]
      [] token = "customer-token" -> [err |-> FALSE, role |-> "customer"]
      [] OTHER -> [err |-> TRUE, role |-> ""]

\* the status the middleware writes (0: it calls the handler) and the role
\* of the claims it puts in the context
AuthMiddleware(authHeader) ==
    IF authHeader = <<>> THEN [status |-> 401, role |-> ""]
    ELSE IF Len(authHeader) # 2 \/ authHeader[1] # "Bearer" THEN [status |-> 401, role |-> ""]
    ELSE IF Verify(authHeader[2]).err THEN [status |-> 401, role |-> ""]
    ELSE [status |-> 0, role |-> Verify(authHeader[2]).role]

\* lets every verified token in
IsAdmin_AnyRole(role) == TRUE

\* claims != nil && claims.Role == "admin"
IsAdmin(role) == role = "admin"

Answer(c, status) == [c EXCEPT !.pc = "done", !.http.status = status]

\* ProductAdminHandler.CreateProduct up to its call of the service
CreateProductHandler(c) ==
    LET form == c.http.form
        price == ParseFloat(form.price)
        stock == Atoi(form.stock)
    IN
    IF form.name = "" \/ form.description = "" \/ form.price = <<>>
        \/ form.category = "" \/ form.stock = <<>>
    THEN Answer(c, 400)
    ELSE IF price.err THEN Answer(c, 400)
    ELSE IF stock.err THEN Answer(c, 400)
    ELSE [c EXCEPT !.op = "Create",
                   !.product = [NilProduct EXCEPT !.Price = price.value,
                                                  !.Category = form.category,
                                                  !.Stock = stock.value],
                   !.pc = IF c.hasFile THEN "create_upload" ELSE "create_insert"]

\* ProductAdminHandler.UpdateProduct between GetProduct and UpdateProduct:
\* the form's non-empty values laid over the product GetProduct returned
UpdateProductHandler(c) ==
    LET form == c.http.form
        price == ParseFloat(form.price)
        stock == Atoi(form.stock)
        existingProduct == c.ret
    IN
    IF form.price # <<>> /\ price.err THEN Answer(c, 400)
    ELSE IF form.stock # <<>> /\ stock.err THEN Answer(c, 400)
    ELSE [c EXCEPT !.op = "Update",
                   !.product =
                       [existingProduct EXCEPT
                           !.Category = IF form.category # "" THEN form.category ELSE @,
                           !.Price = IF form.price # <<>> THEN price.value ELSE @,
                           !.Stock = IF form.stock # <<>> THEN stock.value ELSE @],
                   !.pc = "update_get"]

\* the middleware and the handler up to its first call of the service
Admit(c) ==
    LET auth == AuthMiddleware(c.http.authHeader) IN
    IF auth.status # 0 THEN Answer(c, auth.status)
    ELSE IF ~IsAdmin(auth.role) THEN Answer(c, 403)
    ELSE CASE c.http.route = "POST" -> CreateProductHandler(c)
           [] c.http.route = "PUT" ->
                [c EXCEPT !.op = "Get", !.product.ID = c.http.id, !.pc = "get_cache"]
           [] c.http.route = "DELETE" ->
                [c EXCEPT !.op = "Delete", !.product.ID = c.http.id, !.pc = "delete_get"]
           [] OTHER ->
                [c EXCEPT !.op = "List", !.pc = "list_rows",
                          !.list = NewListCall(c.http.form.category, Zero64, Zero64).list]

\* the handler once the service has returned
Respond(c) ==
    CASE c.http.route = "POST" ->
            Answer(c, CASE c.err = NoError -> 201
                        [] c.err = ErrFileTooLarge -> 413
                        [] c.err = ErrInvalidFileType -> 400
                        [] OTHER -> 500)
      [] c.http.route = "PUT" /\ c.op = "Get" ->
            IF c.err = ErrProductNotFound THEN Answer(c, 404)
            ELSE IF c.err # NoError THEN Answer(c, 500)
            ELSE UpdateProductHandler(c)
      [] c.http.route = "PUT" /\ c.op # "Get" ->
            Answer(c, CASE c.err = NoError -> 200
                        [] c.err = ErrFileTooLarge -> 413
                        [] c.err = ErrInvalidFileType -> 400
                        [] c.err = ErrProductNotFound -> 404
                        [] OTHER -> 500)
      [] c.http.route = "DELETE" ->
            Answer(c, CASE c.err = NoError -> 204
                        [] c.err = ErrProductNotFound -> 404
                        [] OTHER -> 500)
      [] OTHER -> Answer(c, IF c.err = NoError THEN 200 ELSE 500)

\* one step of a request: the way in, or a step of the service, with the
\* handler's code that follows the service's return
HTTPStep(w, c, f) ==
    IF c.pc = "http_auth" THEN [w |-> w, c |-> Admit(c)]
    ELSE LET r == StepCall(w, c, f) IN
         IF r.c.pc = "done" /\ c.http.route # "" THEN [r EXCEPT !.c = Respond(r.c)] ELSE r

NewRequest(route, authHeader, id, form, hasFile, header) ==
    [IdleCall EXCEPT !.pc = "http_auth", !.hasFile = hasFile, !.header = header,
                     !.http = [NoRequest EXCEPT !.route = route,
                                                !.authHeader = authHeader,
                                                !.id = id, !.form = form]]

-----------------------------------------------------------------------------
(* The catalog behind the admin routes, with UpdateStock called beside them *)

AuthHeaders ==
    { <<>>, <<"Basic", "admin-token">>, <<"Bearer", "forged-token">>,
      <<"Bearer", "customer-token">>, <<"Bearer", "admin-token">> }

FullForm ==
    [name |-> "n", description |-> "d", price |-> <<"2">>, category |-> "c1",
     stock |-> <<"3">>]

CreateForms ==
    { FullForm,
      [FullForm EXCEPT !.price = <<"-", "1">>, !.stock = <<"-", "1">>],
      [FullForm EXCEPT !.stock = <<>>],
      [FullForm EXCEPT !.price = <<"x">>] }

UpdateForms ==
    { NoForm,
      [NoForm EXCEPT !.category = "c2"],
      [NoForm EXCEPT !.stock = <<"1", "0">>],
      [NoForm EXCEPT !.stock = <<"x">>] }

RequestUploads == { <<FALSE, NoHeader>>, <<TRUE, PngUpload>> }

HTTPAdvance(s, f) ==
    \E r \in {HTTPStep(World, calls[s], f)} :
        /\ SetWorld(r.w)
        /\ calls' = [calls EXCEPT ![s] = r.c]
        /\ UNCHANGED <<started, twinVars, img, users>>

BeginPost(s) ==
    \E authHeader \in AuthHeaders, form \in CreateForms, up \in RequestUploads :
        Begin(s, NewRequest("POST", authHeader, 0, form, up[1], up[2]))

BeginPut(s) ==
    \E authHeader \in AuthHeaders, id \in RequestIDs(World), form \in UpdateForms :
        Begin(s, NewRequest("PUT", authHeader, id, form, FALSE, NoHeader))

BeginDeleteRequest(s) ==
    \E authHeader \in AuthHeaders, id \in RequestIDs(World) :
        Begin(s, NewRequest("DELETE", authHeader, id, NoForm, FALSE, NoHeader))

BeginAdminList(s) ==
    \E authHeader \in AuthHeaders, category \in {"", "c1"} :
        Begin(s, NewRequest("GET", authHeader, 0, [NoForm EXCEPT !.category = category],
                            FALSE, NoHeader))

Enter(s) == calls[s].pc = "http_auth" /\ HTTPAdvance(s, NoFault)

Serve(s) ==
    /\ calls[s].pc \notin {"idle", "done", "http_auth"}
    /\ \E f \in DBFaults \cup S3Faults \cup RedisFaults : HTTPAdvance(s, f)

InitHTTP ==
    /\ \E w \in {NewWorld(1, TRUE)} :
        /\ repo = w.repo
        /\ nextID = w.nextID
        /\ blobs = w.blobs
        /\ nextURL = w.nextURL
        /\ cache = w.cache
        /\ tasks = w.tasks
        /\ deletedOK = w.deletedOK
        /\ fresh = w.fresh
    /\ calls = [s \in Slots |-> IdleCall]
    /\ started = 0
    /\ twinA = TwinIdle
    /\ twinB = TwinIdle
    /\ users = NoUsers
    /\ img = ImgIdle

NextHTTP ==
    \/ \E s \in Slots : BeginPost(s)
    \/ \E s \in Slots : BeginPut(s)
    \/ \E s \in Slots : BeginDeleteRequest(s)
    \/ \E s \in Slots : BeginAdminList(s)
    \/ \E s \in Slots : BeginUpdateStock(s)
    \/ \E s \in Slots : Enter(s)
    \/ \E s \in Slots : Serve(s)
    \/ RunCacheSet
    \/ RunListCacheSet

SpecHTTP == InitHTTP /\ [][NextHTTP]_vars

-----------------------------------------------------------------------------
(* UserHandler.Register over UserService.Register and UserRepo *)

\* UserRepo.GetByEmail and, when no row is found, user.HashPassword
RegisterGetStep(u, c, f) ==
    IF f.db THEN Answer(Return(c, ErrDB), 500)
    ELSE IF \E row \in u.rows : row.Email = c.user.Email
    THEN Answer(Return(c, ErrUserExists), 409)
    ELSE IF c.user.longPassword THEN Answer(Return(c, ErrPasswordTooLong), 500)
    ELSE [c EXCEPT !.pc = "register_create"]

\* UserRepo.Create against "email VARCHAR(255) UNIQUE NOT NULL", then the
\* token and the handler's answer; a refused insert still draws from the
\* sequence of ids
RegisterCreateStep(u, c, f) ==
    IF f.db THEN [u |-> u, c |-> Answer(Return(c, ErrDB), 500)]
    ELSE IF \E row \in u.rows : row.Email = c.user.Email
    THEN [u |-> [u EXCEPT !.nextID = @ + 1],
          c |-> Answer(Return(c, ErrDuplicateKey), 500)]
    ELSE [u |-> [rows |-> u.rows \cup {[ID |-> u.nextID, Email |-> c.user.Email]},
                 nextID |-> u.nextID + 1],
          c |-> Answer([Return(c, NoError) EXCEPT !.user.ID = u.nextID], 201)]

NewRegistration(email, longPassword) ==
    [IdleCall EXCEPT !.op = "Register", !.pc = "register_get",
                     !.user = [NoUser EXCEPT !.Email = email,
                                             !.longPassword = longPassword]]

-----------------------------------------------------------------------------
(* Registrations, concurrent and one after another *)

Emails == {"a@shop", "b@shop"}

MaxRegistrations == 3

BeginRegister(s) ==
    /\ calls[s].pc \in {"idle", "done"}
    /\ started < MaxRegistrations
    /\ \E email \in Emails, longPassword \in BOOLEAN :
           calls' = [calls EXCEPT ![s] = NewRegistration(email, longPassword)]
    /\ started' = started + 1
    /\ UNCHANGED <<repo, nextID, blobs, nextURL, cache, tasks, deletedOK, fresh,
                   twinVars, img, users>>

RegisterGet(s) ==
    /\ calls[s].pc = "register_get"
    /\ \E f \in DBFaults : calls' = [calls EXCEPT ![s] = RegisterGetStep(users, calls[s], f)]
    /\ UNCHANGED <<repo, nextID, blobs, nextURL, cache, tasks, started, deletedOK, fresh,
                   twinVars, img, users>>

RegisterCreate(s) ==
    /\ calls[s].pc = "register_create"
    /\ \E f \in DBFaults :
           \E r \in {RegisterCreateStep(users, calls[s], f)} :
               /\ users' = r.u
               /\ calls' = [calls EXCEPT ![s] = r.c]
    /\ UNCHANGED <<repo, nextID, blobs, nextURL, cache, tasks, started, deletedOK, fresh,
                   twinVars, img>>

InitRegister ==
    /\ repo = EmptyMap
    /\ nextID = 1
    /\ blobs = {}
    /\ nextURL = 1
    /\ cache = EmptyMap
    /\ tasks = EmptyMap
    /\ deletedOK = {}
    /\ fresh = {}
    /\ calls = [s \in Slots |-> IdleCall]
    /\ started = 0
    /\ twinA = TwinIdle
    /\ twinB = TwinIdle
    /\ img = ImgIdle
    /\ users = NoUsers

NextRegister ==
    \/ \E s \in Slots : BeginRegister(s)
    \/ \E s \in Slots : RegisterGet(s)
    \/ \E s \in Slots : RegisterCreate(s)

SpecRegister == InitRegister /\ [][NextRegister]_vars

-----------------------------------------------------------------------------
(* C13 *)

ListCalls == { s \in Slots : calls[s].op = "List" }

\* the matching row with k - 1 matching rows more recent than it
RowAt(category, k) ==
    LET ids == { id \in DOMAIN repo : category = "" \/ repo[id].Category = category }
    IN repo[CHOOSE id \in ids : Cardinality({ j \in ids : j > id }) = k - 1]

MatchingCount(category) ==
    Cardinality({ id \in DOMAIN repo : category = "" \/ repo[id].Category = category })

\* page p of size s out of n rows: the positions (p-1)*s+1 .. min(p*s, n)
ExpectedPage(category, p, s) ==
    LET n == MatchingCount(category)
        first == (p - 1) * s + 1
        last == IF p * s < n THEN p * s ELSE n
    IN IF first > n THEN <<>>
       ELSE [i \in 1..(last - first + 1) |-> RowAt(category, first + i - 1)]

\* the page number is below 2^16
PageIsSmall(l) == l.page[2] = 0 /\ l.page[3] = 0 /\ l.page[4] = 0

ListAnswerIsRight(l) ==
    /\ l.total = MatchingCount(l.category)
    /\ IF PageIsSmall(l)
       THEN /\ l.items = ExpectedPage(l.category, l.page[1], l.pageSize)
            /\ l.hasMore <=> (l.page[1] * l.pageSize < l.total)
       ELSE /\ l.items = <<>>
            /\ ~l.hasMore

\* C13: with N rows matching the filter and nothing writing, page p of size s
\* is exactly the rows at recency positions (p-1)*s+1 .. min(p*s, N), none
\* when (p-1)*s >= N, total is N, and hasMore holds exactly when p*s < N.
C13_PageIsTheRecencyWindow ==
    \A s \in ListCalls :
        (calls[s].pc = "done" /\ calls[s].err = NoError) =>
            ListAnswerIsRight(calls[s].list)

\* the same, for the pages whose number is below 2^16
C13_HoldsForSmallPages ==
    \A s \in ListCalls :
        (calls[s].pc = "done" /\ calls[s].err = NoError /\ PageIsSmall(calls[s].list)) =>
            ListAnswerIsRight(calls[s].list)

\* 45 rows, page size 20: page 3 has answered with the last 5 rows
C13_SmallPagesWitness ==
    \E s \in ListCalls :
        LET l == calls[s].list IN
        /\ calls[s].pc = "done" /\ calls[s].err = NoError
        /\ l.total = 45 /\ l.pageSize = 20 /\ l.page = FromNat(3)
        /\ Len(l.items) = 5 /\ ~l.hasMore
        /\ l.items[5].ID = 1

-----------------------------------------------------------------------------
(* C14 *)

\* C14: the list handlers call ListProducts with page >= 1 and a page size
\* in 1..100, a missing page_size being 20 and one above 100 being 100, so
\* that the offset (page-1)*pageSize is never negative.
C14_PageAndSizeAreClamped ==
    \A s \in ListCalls :
        LET l == calls[s].list IN
        /\ ~Less64(l.page, One64)
        /\ l.pageSize \in 1..100
        /\ l.rawPageSize = Zero64 => l.pageSize = 20
        /\ Less64(FromNat(100), l.rawPageSize) => l.pageSize = 100
        /\ ~IsNegative(l.offset)

\* the part the handlers keep: page >= 1, page size in 1..100, 20 when missing
C14_PageAndSizeAreInRange ==
    \A s \in ListCalls :
        LET l == calls[s].list IN
        /\ ~Less64(l.page, One64)
        /\ l.pageSize \in 1..100
        /\ l.rawPageSize = Zero64 => l.pageSize = 20

\* the offset alone
C14_OffsetIsNeverNegative ==
    \A s \in ListCalls : ~IsNegative(calls[s].list.offset)

-----------------------------------------------------------------------------
(* C16 *)

\* the keys a call has issued a cache Delete for
KeysDeleted(c) == { c.log[i].key : i \in Events(c, "cache.Delete") }

\* C16: every successful UpdateProduct, DeleteProduct and UpdateStock issues
\* cache deletes for the single-product key of the id, for products:all and
\* for the products:<category> key of the product's category.
C16_WritesInvalidateAllKeys ==
    \A s \in Slots :
        LET c == calls[s] IN
        (c.op \in WriteOps /\ c.pc = "done" /\ c.err = NoError) =>
            /\ ProductKey(c.product.ID) \in KeysDeleted(c)
            /\ ListKey("all") \in KeysDeleted(c)
            /\ IF c.op = "UpdateStock"
               THEN \E category \in Categories : ListKey(category) \in KeysDeleted(c)
               ELSE ListKey(c.oldProduct.Category) \in KeysDeleted(c)

\* the same for UpdateProduct and DeleteProduct alone
C16_UpdateAndDeleteInvalidateAllKeys ==
    \A s \in Slots :
        LET c == calls[s] IN
        (c.op \in {"Update", "Delete"} /\ c.pc = "done" /\ c.err = NoError) =>
            /\ ProductKey(c.product.ID) \in KeysDeleted(c)
            /\ ListKey("all") \in KeysDeleted(c)
            /\ ListKey(c.oldProduct.Category) \in KeysDeleted(c)

-----------------------------------------------------------------------------
(* C19 *)

\* C19: of two DeleteProduct calls for the same existing id, also running
\* concurrently, one returns success and the other ProductNotFound (the
\* Repository answering): a delete of zero rows is ProductNotFound.
C19_OneDeleteWinsOtherNotFound ==
    \A s \in Slots, t \in Slots :
        LET c == calls[s]
            d == calls[t]
        IN
        (s # t /\ c.op = "Delete" /\ d.op = "Delete" /\ c.product.ID = d.product.ID
            /\ c.pc = "done" /\ d.pc = "done"
            /\ c.oldProduct # NilProduct
            /\ c.err # ErrDB /\ d.err # ErrDB) =>
            {c.err, d.err} = {NoError, ErrProductNotFound}

-----------------------------------------------------------------------------
(* C20 *)

\* C20: a successful CreateProduct issues cache deletes for exactly
\* products:all and products:<category of the new product>, and for no
\* single-product key.
C20_CreateInvalidatesListKeysOnly ==
    \A s \in Slots :
        LET c == calls[s] IN
        (c.op = "Create" /\ c.pc = "done" /\ c.err = NoError) =>
            KeysDeleted(c) = {ListKey("all"), ListKey(c.product.Category)}

\* the list keys are among the deleted ones
C20_CreateInvalidatesListKeys ==
    \A s \in Slots :
        LET c == calls[s] IN
        (c.op = "Create" /\ c.pc = "done" /\ c.err = NoError) =>
            {ListKey("all"), ListKey(c.product.Category)} \subseteq KeysDeleted(c)

-----------------------------------------------------------------------------
(* C15 *)

\* C15: after any sequence of create, update and stock-update operations
\* that the handlers and the service accepted, every persisted product has
\* stock >= 0 and price >= 0.
C15_StockAndPriceNonNegative ==
    \A id \in DOMAIN repo : repo[id].Stock >= 0 /\ repo[id].Price >= 0

-----------------------------------------------------------------------------
(* C17 *)

\* the fields of the product that the form of a PUT does not supply (the
\* image is supplied by a file part)
NotSupplied(c) ==
    (IF c.http.form.category = "" THEN {"Category"} ELSE {})
        \cup (IF c.http.form.price = <<>> THEN {"Price"} ELSE {})
        \cup (IF c.http.form.stock = <<>> THEN {"Stock"} ELSE {})
        \cup (IF ~c.hasFile THEN {"ImageURL"} ELSE {})

\* the step in which the PUT of slot s writes its row
PutWrites(s) ==
    /\ calls[s].http.route = "PUT"
    /\ calls[s].pc = "update_write"
    /\ calls'[s].pc = "update_invalidate"

\* C17: the write of a successful PUT leaves every field that the request
\* did not supply at the value the Repository held immediately before that
\* write, whatever ran concurrently and wherever GetProduct read from.
C17_PutChangesOnlySuppliedFields ==
    [][\A s \in Slots :
          PutWrites(s) =>
              \A field \in NotSupplied(calls[s]) :
                  repo'[calls[s].product.ID][field] = repo[calls[s].product.ID][field]]_vars

-----------------------------------------------------------------------------
(* C18 *)

\* the header is "Bearer <token>" and the token verifies
Verified(authHeader) ==
    Len(authHeader) = 2 /\ authHeader[1] = "Bearer" /\ ~Verify(authHeader[2]).err

\* ... and its claims have the role admin
Admitted(authHeader) == Verified(authHeader) /\ Verify(authHeader[2]).role = "admin"

\* requests to the admin routes that carry no verified admin token
Refused == { s \in Slots : calls[s].http.route # "" /\ ~Admitted(calls[s].http.authHeader) }

C18_NoServiceCall ==
    \A s \in Refused :
        LET c == calls[s] IN
        /\ c.op = "idle"
        /\ c.log = <<>>
        /\ c.pc \in {"http_auth", "done"}
        /\ c.pc = "done" =>
               c.http.status = IF Verified(c.http.authHeader) THEN 403 ELSE 401

C18_NothingChanged ==
    \A s \in Refused :
        (calls[s].pc = "http_auth" /\ calls'[s] # calls[s]) =>
            UNCHANGED <<repo, nextID, blobs, nextURL, cache, tasks>>

\* C18: a request to an admin route reaches CreateProduct, UpdateProduct,
\* DeleteProduct or the admin ListProducts only with a Bearer token that
\* verifies and has the role admin; any other request is answered 401 (no
\* or invalid token) or 403 (another role) and changes nothing in the
\* Repository, the image storage or the cache.
C18_AdminRoutesNeedAdminToken == [](C18_NoServiceCall) /\ [][C18_NothingChanged]_vars

\* a customer's request answered 403 and a forged token answered 401, beside
\* an admin's request that reached the service
C18_Witness ==
    /\ \E s \in Refused : calls[s].pc = "done" /\ calls[s].http.status = 403
    /\ started = MaxCalls
    /\ \E s \in Slots \ Refused :
           calls[s].http.route # "" /\ calls[s].pc = "done" /\ calls[s].log # <<>>

\* a request without a verified token, answered 401
C18_UnauthorizedWitness ==
    \E s \in Refused :
        /\ calls[s].pc = "done"
        /\ calls[s].http.status = 401
        /\ ~Verified(calls[s].http.authHeader)

-----------------------------------------------------------------------------
(* C21 *)

\* the keys a finished UpdateProduct has to have issued a cache Delete for
KeysOfUpdate(c) ==
    IF c.err # NoError THEN {}
    ELSE {ProductKey(c.product.ID), ListKey("all"), ListKey(c.oldProduct.Category)}
            \cup (IF c.product.Category # c.oldProduct.Category
                  THEN {ListKey(c.product.Category)} ELSE {})

\* C21: a successful UpdateProduct issues cache deletes for the
\* single-product key, products:all and the list key of the old category,
\* and for the list key of the new category exactly when the category
\* changed; a failed UpdateProduct issues none.
C21_UpdateInvalidation ==
    \A s \in Slots :
        LET c == calls[s] IN
        (c.op = "Update" /\ c.pc = "done") => KeysDeleted(c) = KeysOfUpdate(c)

\* one update that changed the category has returned, and one that failed
\* at its write
C21_Witness ==
    /\ \E s \in Slots :
        LET c == calls[s] IN
        /\ c.op = "Update" /\ c.pc = "done" /\ c.err = NoError
        /\ c.product.Category # c.oldProduct.Category
        /\ ListKey(c.product.Category) \in KeysDeleted(c)
    /\ \E s \in Slots :
        LET c == calls[s] IN
        /\ c.op = "Update" /\ c.pc = "done" /\ c.err = ErrDB
        /\ Events(c, "repo.Update") # {}

-----------------------------------------------------------------------------
(* C22 *)

\* C22: a DeleteProduct whose image delete failed still goes on to delete
\* the record, and its result is the Repository's alone: success and the
\* record gone when the Repository deleted it.
C22_ImageFailureDoesNotBlockDelete ==
    \A s \in Slots :
        LET c == calls[s] IN
        (c.op = "Delete" /\ c.pc = "done" /\ Failed(c, "s3.DeleteFile") # {}) =>
            /\ Events(c, "repo.Delete") # {}
            /\ Succeeded(c, "repo.Delete") # {} =>
                   c.err = NoError /\ c.product.ID \notin DOMAIN repo
            /\ Succeeded(c, "repo.Delete") = {} => c.err \in {ErrDB, ErrNoRowsAffected}

\* a delete has returned success although its image delete failed, and the
\* blob is still stored
C22_Witness ==
    \E s \in Slots :
        LET c == calls[s] IN
        /\ c.op = "Delete" /\ c.pc = "done" /\ c.err = NoError
        /\ Failed(c, "s3.DeleteFile") # {}
        /\ c.oldProduct.ImageURL \in blobs
        /\ c.product.ID \notin DOMAIN repo

-----------------------------------------------------------------------------
(* C23 *)

\* C23: the single-product key is injective in the id, so a GetProduct(id)
\* that returns a product returns the product of that id.
C23_GetReturnsTheRequestedID ==
    \A s \in Slots :
        LET c == calls[s] IN
        (c.op = "Get" /\ c.pc = "done" /\ c.err = NoError) => c.ret.ID = c.product.ID

\* distinct ids that a request can name have distinct keys
C23_KeysAreInjective ==
    \A id \in RequestIDs(World), other \in RequestIDs(World) :
        id # other => ProductKey(id) # ProductKey(other)

\* a write to one id deletes no cache entry of another id
C23_WritesLeaveOtherEntries ==
    [][\A s \in Slots :
          (calls[s].op \in WriteOps /\ calls'[s] # calls[s]) =>
              \A key \in DOMAIN cache \ DOMAIN cache' :
                  Unmarshal(cache[key]).product.ID = calls[s].product.ID]_vars

-----------------------------------------------------------------------------
(* C24 *)

\* C24: ListProducts asks the Repository for the page and for the count and
\* never reads the cache: what it returns is the page and the count of the
\* Repository's rows, whatever the cache holds and whether it answers.
C24_ListIgnoresTheCache ==
    \A s \in ListCalls :
        LET c == calls[s] IN
        (c.pc = "done" /\ c.err = NoError) =>
            /\ Events(c, "cache.Get") = {}
            /\ Succeeded(c, "repo.List") # {}
            /\ Succeeded(c, "repo.Count") # {}
            /\ c.list.items = Window(Recent(World, c.list.category),
                                      c.list.pageSize, c.list.offset)
            /\ c.list.total = MatchingCount(c.list.category)

\* a list has answered with rows while the cache held another list under
\* its key
C24_Witness ==
    \E s \in ListCalls :
        LET c == calls[s] IN
        /\ c.pc = "done" /\ c.err = NoError
        /\ c.list.items # <<>>
        /\ ListKeyOf(c.list.category) \in DOMAIN cache
        /\ cache[ListKeyOf(c.list.category)] # MarshalList(c.list.items)

-----------------------------------------------------------------------------
(* C25 *)

\* C25: updates of one id are not serialized and the last Repository write
\* wins: whatever other calls did since it read the row, the write of an
\* UpdateProduct leaves the row as that call computed it.
C25_LastWriteWins ==
    [][\A s \in Slots :
          (calls[s].op = "Update" /\ calls[s].pc = "update_write"
              /\ calls'[s].pc = "update_invalidate") =>
              repo'[calls[s].product.ID] = calls[s].product]_vars

\* two updates of one id, each with an upload: the image that one of them
\* has persisted as the product's image has been deleted by the other, and
\* the row refers to a blob that is gone
C25_Witness ==
    \E s \in Slots, t \in Slots :
        LET c == calls[s]
            d == calls[t]
        IN
        /\ s # t
        /\ c.op = "Update" /\ d.op = "Update" /\ c.product.ID = d.product.ID
        /\ c.hasFile /\ d.hasFile
        /\ Succeeded(d, "repo.Update") # {}
        /\ d.imageURL # NoURL
        /\ c.product.ID \in DOMAIN repo
        /\ repo[c.product.ID].ImageURL = d.imageURL
        /\ \E i \in Succeeded(c, "s3.DeleteFile") : c.log[i].url = d.imageURL
        /\ d.imageURL \notin blobs

-----------------------------------------------------------------------------
(* C26 *)

\* every call has returned and every background cache write has been applied
Quiescent == tasks = EmptyMap /\ \A s \in Slots : calls[s].pc \in {"idle", "done"}

\* C26: at quiescence the cache entry of every id is absent or equal to the
\* row the Repository holds for that id, never an older version and never a
\* deleted product.
C26_CacheCoherentAtQuiescence ==
    Quiescent =>
        \A key \in DOMAIN cache :
            LET product == Unmarshal(cache[key]).product IN
            product.ID \in DOMAIN repo /\ repo[product.ID] = product

-----------------------------------------------------------------------------
(* C27 *)

NoCallInFlight == \A s \in Slots : calls[s].pc \in {"idle", "done"}

\* C27: whenever no call is in flight, every persisted product with an
\* image URL refers to a blob that the image storage still holds.
C27_ImagesOfProductsExist ==
    NoCallInFlight =>
        \A id \in DOMAIN repo : repo[id].ImageURL # NoURL => repo[id].ImageURL \in blobs

-----------------------------------------------------------------------------
(* C28 *)

\* every call made so far still has its slot, and none of them has seen an
\* image delete fail
NoDeleteFailed ==
    /\ Cardinality({ s \in Slots : calls[s].op # "idle" }) = started
    /\ \A s \in Slots : Failed(calls[s], "s3.DeleteFile") = {}

\* C28: when every image delete succeeds, then once all calls have returned
\* every blob that is still stored is the image of some persisted product.
C28_NoOrphanedBlobs ==
    (NoCallInFlight /\ NoDeleteFailed) =>
        \A url \in blobs : \E id \in DOMAIN repo : repo[id].ImageURL = url

-----------------------------------------------------------------------------
(* C29 *)

\* C29: a CreateProduct without an upload never calls the image storage,
\* neither to upload nor to delete, whatever the insert does and whatever
\* ImageURL the caller's product carries.
C29_CreateWithoutUploadLeavesStorageAlone ==
    \A s \in Slots :
        LET c == calls[s] IN
        (c.op = "Create" /\ ~c.hasFile) => S3Events(c) = {}

-----------------------------------------------------------------------------
(* C30 *)

Registrations == { s \in Slots : calls[s].op = "Register" }

\* at most one user is persisted per email
C30_EmailsAreUnique ==
    \A row \in users.rows, other \in users.rows : row.Email = other.Email => row = other

\* C30: of the Register calls for one email at most one user is persisted,
\* and a call that finds the email taken, at its lookup or at its insert,
\* returns ErrUserExists and is answered 409, never a generic error.
C30_RegisterOncePerEmail ==
    /\ C30_EmailsAreUnique
    /\ \A s \in Registrations :
        LET c == calls[s] IN
        (c.pc = "done" /\ c.err \notin {NoError, ErrDB, ErrPasswordTooLong}) =>
            c.err = ErrUserExists /\ c.http.status = 409

====
